---- MODULE Spec2Model ----
(***************************************************************************)
(* Model of the tool-calling orchestration loop of the browser extension   *)
(* (src/background.js): generateWithToolsLoop with its backend fallback,    *)
(* fetchWithRetry, loop detection, the approval gate (requestToolApproval,  *)
(* waitForMessageOnce), sequential tool execution and result folding, and   *)
(* the context compression applied before every model call.                 *)
(*                                                                          *)
(* One step of the model is one stretch of code between two suspension      *)
(* points (await) of the session.                                           *)
(*                                                                          *)
(* Other functions are specified on their own, over bounded inputs:         *)
(* truncateDeep (SpecTruncate), compressIfNeeded (SpecCompress), the tool   *)
(* dispatcher executeTool / handleBackgroundTool (SpecDispatch), its        *)
(* extractText escalation (SpecEscalate) and post-navigation handling       *)
(* (SpecNavigate), the runtime message listener (SpecListener), and, in the *)
(* content script (src/unnamed/part_000), the strategy ladder of            *)
(* extractText (SpecExtract), decodeGoogleRedirect (SpecRedirect),          *)
(* clickSearchResultByDomain (SpecClick) and waitForSelector (SpecWait).    *)
(*                                                                          *)
(* Further sections of the background script: the tool loop and the tabs    *)
(* of the window (SpecSurface), the settings (SpecSettings), the            *)
(* EXECUTE_TOOL message (SpecDirect), the approval gate with the side       *)
(* panel of src/sidepanel.js (SpecGate), fetchWithRetry (SpecFetch), the    *)
(* messages of the ASK_GEMINI handler (SpecStream), waitForTabComplete and  *)
(* waitForUrlChange (SpecTabWait), trimContents (SpecTrim); and the scroll  *)
(* loop of extractText in the content script (SpecScroll).                  *)
(***************************************************************************)
EXTENDS Integers, Sequences, FiniteSets, TLC

(***************************************************************************)
(* Bounds of the model.                                                     *)
(***************************************************************************)
\* largest round budget (maxRounds) a session is started with
MaxRounds == 5

(***************************************************************************)
(* Program constants.                                                       *)
(***************************************************************************)
\* character budget handed to compressIfNeeded by the loop
LoopCharBudget == 10000
\* retries of fetchWithRetry for a regular round's model call
RoundRetries == 2
\* retries of fetchWithRetry for a forced / final no-tools call
NoToolsRetries == 1
\* repeat threshold for batches holding a recognised workflow tool
WorkflowThreshold == 4
\* repeat threshold for every other batch
PlainThreshold == 2
\* summaries are cut to this many characters
SummaryMaxChars == 1200
\* length of the label 'Conversation summary (compressed):\n'
SummaryLabelChars == 35
\* length of 'Summary unavailable due to error.'
SummaryErrorChars == 33
\* length of the stop instruction pushed before a forced final answer
StopInstructionChars == 82
\* largest tail compressIfNeeded starts with
MaxTail == 8

VARIABLES
  maxRounds,          \* const maxRounds
  autoApprove,        \* STATE.autoApprove
  fallbackList,       \* const fallbackList (deduplicated, ordered)
  pc,                 \* position of the session inside generateWithToolsLoop
  round,              \* let round
  contents,           \* let contents: sequence of [kind, len] entries
  currentTabId,       \* let currentTabId
  lastCallSignature,  \* let lastCallSignature (NullSig = null)
  repeatCount,        \* let repeatCount
  candidate,          \* const candidate of the current round with its parts as received,
                      \* and const calls, the calls extracted from them: [parts, calls, text]
  mdl,                \* index in fallbackList of the backend being tried (0: none)
  attempt,            \* fetchWithRetry: let attempt
  lastErr,            \* fetchWithRetry: lastErr !== null
  pendingId,          \* requestToolApproval: const id (0: none)
  listening,          \* waitForMessageOnce: handler registered and timer armed
  callIdx,            \* index in candidate.calls of the next tool call (0: none)
  nameToResultArray,  \* const nameToResultArray
  result,             \* value returned by generateWithToolsLoop (NoResult: running)
  \* ---- history variables (not program state) ----
  lastReq,            \* last backend request of the model call in progress
  toolRounds,         \* number of rounds in which a tool was dispatched
  toolsRun,           \* tool calls dispatched in the current round
  approvalOutcome,    \* how the approval gate answered in the current round
  forced,             \* the forced no-tools call was attempted in the current round
  runLen,             \* number of consecutive rounds, up to the current one, with one signature
  prevSig,            \* signature of the batch of the latest interpreted round
  inFlight,           \* indexes of the calls whose executeTool promise is pending
  dispatched,         \* indexes of the calls of the round, in the order they were started
  dispatchTab,        \* the tabId handed to the executeTool in progress (0: none)
  surface,            \* the tab most recently reported by a tool result (at first the session's tab)
  roundBase,          \* length of contents when the current round sent its first request
  \* ---- truncateDeep ----
  value,              \* truncateDeep: value
  opts,               \* truncateDeep: { maxChars, maxArray, maxKeys }
  safe,               \* the values truncateDeep returned, pass after pass
  \* ---- compressIfNeeded ----
  conv,               \* compressIfNeeded: contents
  budget,             \* compressIfNeeded: maxChars
  compressed,         \* << >>, or the one value compressIfNeeded returned
  \* ---- executeTool (background) ----
  toolCall,           \* executeTool: name and the arguments present in args
  browser,            \* what the tab, the page and chrome.tabs do during the dispatch
  toolResult,         \* << >>, or the one outcome of the dispatch
  \* ---- extractText (content script) ----
  doc,                \* what each strategy of the ladder finds in the document
  strategy,           \* the step the ladder is at (strategies 1 and 2 are one step)
  currentText,        \* let currentText (its length)
  bestLens,           \* the length of currentText after each strategy so far
  \* ---- runtime.onMessage listener (background) ----
  sessions,           \* per ASK_GEMINI message: where its async handler is
  \* ---- decodeGoogleRedirect (content script) ----
  href,               \* decodeGoogleRedirect: href, parsed
  unwrapped,          \* << >>, or the one value decodeGoogleRedirect returned
  \* ---- clickSearchResultByDomain (content script) ----
  anchors,            \* the page: its host, the anchors it holds, args.domain
  target,             \* << >>, or const target (0: null)
  \* ---- extractText escalation of executeTool (background) ----
  page,               \* what the page, its frames and the retries have to offer
  returned,           \* << >>, or what executeTool returned
  \* ---- waitForSelector (content script) ----
  waiter,             \* the promise, the timer and the observer of one call
  \* ---- post-navigation handling of executeTool (background) ----
  nav,                \* the dispatch of one navigating tool
  \* ---- the tool loop and the tabs of the window (background) ----
  tabs,               \* the open tabs, let currentTabId and the dispatches of one batch
  \* ---- settings: STATE and chrome.storage.sync (background) ----
  settings,           \* the persisted flag, STATE.autoApprove and the pending callbacks
  \* ---- EXECUTE_TOOL runtime message (background) ----
  direct,             \* the handler of one EXECUTE_TOOL message
  \* ---- requestToolApproval and the approval modal (background, side panel) ----
  gate,               \* pending requests, the modal and the messages under way
  \* ---- fetchWithRetry (background) ----
  fetcher,            \* one call: retries, the outcomes of its requests, how it ended
  \* ---- ASK_GEMINI handler and the streaming state (background, side panel) ----
  stream,             \* the messages one ASK_GEMINI handler emitted
  \* ---- waitForTabComplete / waitForUrlChange (background) ----
  tabWait,            \* the promise, the timer and the listener of one call
  \* ---- scroll loop of extractText (content script) ----
  scroll,             \* the loop variables of one extractText call
  \* ---- trimContents (background) ----
  trim                \* contents, maxChars and what trimContents returned

truncVars == <<value, opts, safe>>
compVars == <<conv, budget, compressed>>
dispVars == <<toolCall, browser, toolResult>>
extrVars == <<doc, strategy, currentText, bestLens>>
redirVars == <<href, unwrapped>>
clickVars == <<anchors, target>>
escVars == <<page, returned>>
lastVars == <<tabs, settings, direct, gate, fetcher, stream, tabWait, scroll, trim>>
moreVars == <<sessions, redirVars, clickVars, escVars, waiter, nav, lastVars>>

\* what a session never changes: its configuration, and the variables of the
\* functions specified on their own below
cfgVars == <<maxRounds, autoApprove, fallbackList, truncVars, compVars, dispVars,
             extrVars, moreVars>>
fetchVars == <<mdl, attempt, lastErr>>
apprVars == <<pendingId, listening>>
execVars == <<callIdx, nameToResultArray>>
detectVars == <<lastCallSignature, repeatCount, candidate>>
orderVars == <<inFlight, dispatched, dispatchTab, surface>>
histVars == <<toolRounds, toolsRun, approvalOutcome, forced, runLen, prevSig, orderVars,
              roundBase>>

vars == <<maxRounds, autoApprove, fallbackList, pc, round, contents, currentTabId,
          lastCallSignature, repeatCount, candidate, mdl, attempt, lastErr,
          pendingId, listening, callIdx, nameToResultArray, result,
          lastReq, toolRounds, toolsRun, approvalOutcome, forced, runLen, prevSig,
          inFlight, dispatched, dispatchTab, surface, roundBase,
          value, opts, safe, conv, budget, compressed, toolCall, browser,
          toolResult, doc, strategy, currentText, bestLens,
          sessions, href, unwrapped, anchors, target, page, returned, waiter, nav,
          tabs, settings, direct, gate, fetcher, stream, tabWait, scroll, trim>>

sessionVars == <<maxRounds, autoApprove, fallbackList, pc, round, contents,
                 currentTabId, detectVars, fetchVars, apprVars, execVars, result,
                 lastReq, toolRounds, toolsRun, approvalOutcome, forced, runLen,
                 prevSig, orderVars, roundBase>>

\* the variables of the session and of the sections up to the message listener
oldVars == <<sessionVars, truncVars, compVars, dispVars, extrVars, sessions,
             redirVars, clickVars, escVars, waiter, nav>>

(***************************************************************************)
(* Values.                                                                  *)
(***************************************************************************)
\* HTTP statuses a backend answers with
Statuses == {200, 400, 403, 500, 503, 504}
\* what one fetch can end with: a status, or 0 when fetch rejects (network error)
Outcomes == Statuses \cup {0}
IsNetErr(o) == o = 0

NullSig == <<>>
NoReq == [site |-> "none", mdl |-> 0, nth |-> 0, outcome |-> -1, tools |-> FALSE, last |-> "none", text |-> ""]
NoResult == [kind |-> "none", via |-> "none", status |-> 0, model |-> 0, text |-> ""]
NoCandidate == [parts |-> <<>>, calls |-> <<>>, text |-> ""]

Entry(k, n) == [kind |-> k, len |-> n]

\* length of a text fragment returned by the model
TextLen(t) == CASE t = "" -> 0 [] t = "a" -> 40 [] OTHER -> 0

\* functionCall.args as received: an object (its key/value pairs in order), or
\* a string (its JSON tokens in order)
ObjArgs(pairs) == [str |-> FALSE, obj |-> pairs, text |-> << >>]
StrArgs(tokens) == [str |-> TRUE, obj |-> << >>, text |-> tokens]

\* functionCall parts a model response may carry: ClickB sends its arguments
\* as the string '{"selector":"b"}', Extract as the cut-off string '{"selector":'
ClickA == <<[name |-> "clickSelector", args |-> ObjArgs(<< <<"selector", "a">> >>)]>>
ClickB == <<[name |-> "clickSelector",
             args |-> StrArgs(<<"{", "selector", ":", "b", "}">>)]>>
Extract == <<[name |-> "extractText", args |-> StrArgs(<<"{", "selector", ":">>)]>>
OpenExtract == <<[name |-> "openNewTab", args |-> ObjArgs(<< <<"url", "u">> >>)],
                 [name |-> "extractText", args |-> ObjArgs(<< >>)]>>
ToolBatches == {ClickA, ClickB, Extract, OpenExtract}

\* what a 200 response carries: candidates[0] with its parts and its text
Responses ==
  {[parts |-> << >>, text |-> t] : t \in {"", "a"}}
    \cup {[parts |-> b, text |-> ""] : b \in ToolBatches}

\* conversations a session is started with (buildContentsFromMessages)
InitialContents ==
  { <<Entry("user", 120)>>,
    <<Entry("user", 6000), Entry("model", 5000), Entry("user", 120)>> }

\* the preferred backend (STATE.model)
PreferredModels == {"gemini-2.5-flash-lite", "gemini-2.5-flash"}

(***************************************************************************)
(* Pure helpers of the driver.                                              *)
(***************************************************************************)
Min(a, b) == IF a <= b THEN a ELSE b

\* Array.from(new Set([preferred, 'gemini-2.5-flash', 'gemini-1.5-flash']))
BuildFallbackList(preferred) ==
  IF preferred \in {"gemini-2.5-flash", "gemini-1.5-flash"}
    THEN <<preferred>> \o (IF preferred = "gemini-2.5-flash"
                             THEN <<"gemini-1.5-flash">>
                             ELSE <<"gemini-2.5-flash">>)
    ELSE <<preferred, "gemini-2.5-flash", "gemini-1.5-flash">>

\* sum of the lengths of the text parts of the entries
RECURSIVE estimateContentChars(_)
estimateContentChars(cs) ==
  IF cs = << >> THEN 0 ELSE Head(cs).len + estimateContentChars(Tail(cs))

\* the loop of trimContents: i walks from the newest entry to the oldest
RECURSIVE trimLoop(_, _, _, _)
trimLoop(cs, maxChars, i, kept) ==
  IF i < 1 THEN kept
  ELSE LET grown == <<cs[i]>> \o kept
       IN  IF estimateContentChars(grown) > maxChars
             THEN kept
             ELSE trimLoop(cs, maxChars, i - 1, grown)

\* faulty variant of trimContents: the newest entry is kept even when it alone
\* is over the limit (no kept.shift())
trimContentsKeepsNewest(cs, maxChars) ==
  IF estimateContentChars(cs) <= maxChars THEN cs
  ELSE LET kept == trimLoop(cs, maxChars, Len(cs), << >>)
       IN  IF kept = << >> THEN <<cs[Len(cs)]>> ELSE kept

trimContents(cs, maxChars) ==
  IF estimateContentChars(cs) <= maxChars THEN cs
  ELSE trimLoop(cs, maxChars, Len(cs), << >>)

\* the entry compressIfNeeded builds from a summary of sumLen characters
SummaryEntry(sumLen) == Entry("summary", SummaryLabelChars + sumLen)

\* the while loop of compressIfNeeded; sums[i] is the length of the summary
\* the i-th summarizeHistoryText call returns
RECURSIVE compressLoop(_, _, _, _, _)
compressLoop(cs, maxChars, tailCount, sums, i) ==
  IF tailCount > 2
    THEN LET tail == SubSeq(cs, Len(cs) - tailCount + 1, Len(cs))
             newContents == <<SummaryEntry(sums[i])>> \o tail
         IN  IF estimateContentChars(newContents) <= maxChars
               THEN newContents
               ELSE compressLoop(cs, maxChars, tailCount - 2, sums, i + 1)
    ELSE trimContents(cs, maxChars)

compressIfNeeded(cs, maxChars, sums) ==
  IF estimateContentChars(cs) <= maxChars THEN cs
  ELSE compressLoop(cs, maxChars, Min(Len(cs), MaxTail), sums, 1)

\* lengths a summary can have: '' (non-OK answer or empty text), the error
\* text of the catch branch, a short summary, a summary cut at the maximum
SummaryLens == {0, SummaryErrorChars, SummaryMaxChars}
SummaryRuns == [1 .. 3 -> SummaryLens]

JSONPunctuation == {"{", "}", ":", ","}

NoParse == [ok |-> FALSE, val |-> << >>]

\* JSON.parse on the members between the braces of an object
RECURSIVE parseMembers(_)
parseMembers(m) ==
  IF Len(m) >= 3 /\ m[1] \notin JSONPunctuation /\ m[2] = ":"
       /\ m[3] \notin JSONPunctuation
    THEN IF Len(m) = 3 THEN [ok |-> TRUE, val |-> << <<m[1], m[3]>> >>]
         ELSE IF m[4] = ","
           THEN LET rest == parseMembers(SubSeq(m, 5, Len(m)))
                IN  IF rest.ok
                      THEN [ok |-> TRUE, val |-> << <<m[1], m[3]>> >> \o rest.val]
                      ELSE NoParse
           ELSE NoParse
    ELSE NoParse

\* JSON.parse of the text of an object: ok is FALSE where JSON.parse throws
JSONParse(t) ==
  IF Len(t) >= 2 /\ t[1] = "{" /\ t[Len(t)] = "}"
    THEN IF Len(t) = 2 THEN [ok |-> TRUE, val |-> << >>]
         ELSE parseMembers(SubSeq(t, 2, Len(t) - 1))
    ELSE NoParse

\* try { return JSON.parse(s); } catch { return {}; }
safelyParseJSON(t) == IF JSONParse(t).ok THEN JSONParse(t).val ELSE << >>

\* the call pushed for one functionCall part
CallOfPart(p) ==
  [name |-> p.name,
   args |-> IF p.args.str THEN safelyParseJSON(p.args.text) ELSE p.args.obj]

\* faulty variant of getFunctionCallsFromCandidate: a call whose arguments do
\* not parse is dropped
RECURSIVE getFunctionCallsDroppingUnparsed(_)
getFunctionCallsDroppingUnparsed(parts) ==
  IF parts = << >> THEN << >>
  ELSE (IF Head(parts).args.str /\ ~JSONParse(Head(parts).args.text).ok
          THEN << >> ELSE <<CallOfPart(Head(parts))>>)
         \o getFunctionCallsDroppingUnparsed(Tail(parts))

\* the calls of the functionCall parts of a candidate, in order
getFunctionCallsFromCandidate(parts) ==
  [i \in 1 .. Len(parts) |-> CallOfPart(parts[i])]

\* JSON.stringify of one argument object: keys and values in insertion order
RECURSIVE stringifyArgs(_)
stringifyArgs(args) ==
  IF args = << >> THEN << >>
  ELSE <<Head(args)[1], ":", Head(args)[2]>> \o stringifyArgs(Tail(args))

RECURSIVE stringifyCalls(_)
stringifyCalls(calls) ==
  IF calls = << >> THEN << >>
  ELSE <<"{", "name", ":", Head(calls).name, "args", ":", "{">>
         \o stringifyArgs(Head(calls).args) \o <<"}", "}">>
         \o stringifyCalls(Tail(calls))

\* JSON.stringify(calls.map(c => ({ name: c.name, args: c.args })))
callSignature(calls) == <<"[">> \o stringifyCalls(calls) \o <<"]">>

WorkflowTools ==
  {"searchWeb", "getSearchResults", "clickSearchResultByDomain", "extractText",
   "waitForSelector"}

\* faulty variant of isLegitimateWorkflow: only the first call of the batch is looked at
isLegitimateWorkflowFirstOnly(calls) ==
  Len(calls) > 0 /\ calls[1].name \in WorkflowTools

isLegitimateWorkflow(calls) ==
  \E i \in 1 .. Len(calls) : calls[i].name \in WorkflowTools

RepeatThreshold(calls) ==
  IF isLegitimateWorkflow(calls) THEN WorkflowThreshold ELSE PlainThreshold

\* the condition of: if (calls.length > 0 && callSignature === lastCallSignature)
IsRepeat(calls, last) == Len(calls) > 0 /\ callSignature(calls) = last

\* faulty variant of NextRepeatCount: the counter is never reset
NextRepeatCountNoReset(calls, last, count) ==
  IF Len(calls) > 0 THEN count + 1 ELSE 0

\* repeatCount after the loop-detection step
NextRepeatCount(calls, last, count) ==
  IF IsRepeat(calls, last) THEN count + 1 ELSE 0

\* lastCallSignature after the loop-detection step
NextLastSignature(calls, last) ==
  IF IsRepeat(calls, last) THEN last ELSE callSignature(calls)

\* faulty variant of IsFinalAnswer: a batch of one call is taken for an answer
IsFinalAnswerOneCall(calls) == Len(calls) <= 1

\* if (!calls.length): the response is the final answer
IsFinalAnswer(calls) == Len(calls) = 0

\* faulty variant of LoopCond: the budget is checked off by one
LoopCondInclusive(r, n) == r <= n

\* the condition of the for loop over rounds
LoopCond(r, n) == r < n

\* faulty variant of IsTransientStatus: every non-OK status is retried
IsTransientStatusAnyError(s) == s # 200

\* [500, 503, 504].includes(resp.status)
IsTransientStatus(s) == s \in {500, 503, 504}

\* the status on which the round's backend loop moves on to the next backend
IsFallThroughStatus(s) == s = 500

\* faulty variant of RetryCond: one pass less
RetryCondExclusive(n, retries) == n < retries

\* fetchWithRetry: the condition of while (attempt <= retries)
RetryCond(n, retries) == n <= retries

\* faulty variant of RequestHasTools: bodyBase is used at every call site
RequestHasToolsEverywhere(site) == TRUE

\* whether a request built at a call site carries the tool declarations
RequestHasTools(site) == site = "round"

\* retries handed to fetchWithRetry at a call site
Retries(site) == IF site = "round" THEN RoundRetries ELSE NoToolsRetries

\* faulty variant of Approved: the answer of the user is not looked at
ApprovedWhateverAnswer(msg) == TRUE

\* !!res.approved
Approved(msg) == msg.approved = "true"

\* faulty variant of TimeoutApproved: the gate fails open
TimeoutFailsOpen == TRUE

\* the value of the catch branch of requestToolApproval
TimeoutApproved == FALSE

\* what the user answered in an approval response
Answer(msg) == IF msg.approved = "true" THEN "approved" ELSE "declined"

\* faulty variant of ApprovalPredicate: the id of the response is not compared
ApprovalPredicateAnyId(msg, id) == msg.type = "TOOL_APPROVAL_RESPONSE"

\* the predicate handed to waitForMessageOnce
ApprovalPredicate(msg, id) == msg.type = "TOOL_APPROVAL_RESPONSE" /\ msg.id = id

\* result.newTabId || result.switchedTabId, when the result is an object
ReportedTab(res) == IF res.newTabId # 0 THEN res.newTabId ELSE res.switchedTabId

\* faulty variant of NextTabId: a reported surface is not taken over
NextTabIdKeepsTab(res, tabId) == tabId

\* currentTabId after a tool result
NextTabId(res, tabId) ==
  IF res.kind = "obj" /\ ReportedTab(res) # 0 THEN ReportedTab(res) ELSE tabId

ToolRes(k, n, s) == [kind |-> k, newTabId |-> n, switchedTabId |-> s]

\* ids chrome.tabs.create gives the tabs a session opens
NewTabIds == {2, 3}

\* faulty variant of NextCall: every other call of the batch is skipped
NextCallSkipping(i) == i + 2

\* for (const call of calls): the call taken after the call at index i
NextCall(i) == i + 1

\* what executeTool can come back with: an object (with or without a new
\* surface), null, or a fault (chrome.tabs.create rejecting)
ToolOutcomes(name) ==
  IF name = "openNewTab"
    THEN {ToolRes("obj", t, 0) : t \in NewTabIds}
           \cup {ToolRes("obj", 0, 0), ToolRes("throw", 0, 0)}
    ELSE {ToolRes("obj", 0, 0), ToolRes("null", 0, 0)}

\* runtime messages that can reach the approval listener
ApprovalMessages(id) ==
  [type : {"TOOL_APPROVAL_RESPONSE"}, id : {id, 0},
   approved : {"true", "false", "absent"}]
    \cup {[type |-> "STREAM_UPDATE", id |-> id, approved |-> "true"]}

(***************************************************************************)
(* The session: generateWithToolsLoop.                                      *)
(***************************************************************************)
\* no truncateDeep, compressIfNeeded, executeTool or extractText under study
TruncIdle == value = << >> /\ opts = << >> /\ safe = << >>
CompIdle == conv = << >> /\ budget = 0 /\ compressed = << >>
DispIdle == toolCall = << >> /\ browser = << >> /\ toolResult = << >>
ExtrIdle == doc = << >> /\ strategy = 0 /\ currentText = 0 /\ bestLens = << >>

\* none of the other functions under study, but for the variables named
MoreIdle(active) ==
  /\ IF "sessions" \in active THEN TRUE ELSE sessions = << >>
  /\ IF "href" \in active THEN TRUE ELSE href = << >> /\ unwrapped = << >>
  /\ IF "anchors" \in active THEN TRUE ELSE anchors = << >> /\ target = << >>
  /\ IF "page" \in active THEN TRUE ELSE page = << >> /\ returned = << >>
  /\ IF "waiter" \in active THEN TRUE ELSE waiter = << >>
  /\ IF "nav" \in active THEN TRUE ELSE nav = << >>
  /\ IF "tabs" \in active THEN TRUE ELSE tabs = << >>
  /\ IF "settings" \in active THEN TRUE ELSE settings = << >>
  /\ IF "direct" \in active THEN TRUE ELSE direct = << >>
  /\ IF "gate" \in active THEN TRUE ELSE gate = << >>
  /\ IF "fetcher" \in active THEN TRUE ELSE fetcher = << >>
  /\ IF "stream" \in active THEN TRUE ELSE stream = << >>
  /\ IF "tabWait" \in active THEN TRUE ELSE tabWait = << >>
  /\ IF "scroll" \in active THEN TRUE ELSE scroll = << >>
  /\ IF "trim" \in active THEN TRUE ELSE trim = << >>

\* no session under study
SessionIdle ==
  /\ maxRounds = 0
  /\ autoApprove = FALSE
  /\ fallbackList = << >>
  /\ pc = "idle"
  /\ round = 0
  /\ contents = << >>
  /\ currentTabId = 0
  /\ lastCallSignature = NullSig
  /\ repeatCount = 0
  /\ candidate = NoCandidate
  /\ mdl = 0
  /\ attempt = 0
  /\ lastErr = FALSE
  /\ pendingId = 0
  /\ listening = FALSE
  /\ callIdx = 0
  /\ nameToResultArray = << >>
  /\ result = NoResult
  /\ lastReq = NoReq
  /\ toolRounds = 0
  /\ toolsRun = 0
  /\ approvalOutcome = "none"
  /\ forced = FALSE
  /\ runLen = 0
  /\ prevSig = NullSig
  /\ inFlight = {}
  /\ dispatched = << >>
  /\ dispatchTab = 0
  /\ surface = 0
  /\ roundBase = 0

\* nothing under study of what the sections up to extractText specify
FirstIdle == SessionIdle /\ TruncIdle /\ CompIdle /\ DispIdle /\ ExtrIdle

Init ==
  /\ TruncIdle /\ CompIdle /\ DispIdle /\ ExtrIdle /\ MoreIdle({})
  /\ maxRounds \in 0 .. MaxRounds
  /\ autoApprove \in BOOLEAN
  /\ fallbackList \in {BuildFallbackList(p) : p \in PreferredModels}
  /\ pc = "loop"
  /\ round = 0
  /\ contents \in InitialContents
  /\ currentTabId = 1
  /\ lastCallSignature = NullSig
  /\ repeatCount = 0
  /\ candidate = NoCandidate
  /\ mdl = 0
  /\ attempt = 0
  /\ lastErr = FALSE
  /\ pendingId = 0
  /\ listening = FALSE
  /\ callIdx = 0
  /\ nameToResultArray = << >>
  /\ result = NoResult
  /\ lastReq = NoReq
  /\ toolRounds = 0
  /\ toolsRun = 0
  /\ approvalOutcome = "none"
  /\ forced = FALSE
  /\ runLen = 0
  /\ prevSig = NullSig
  /\ inFlight = {}
  /\ dispatched = << >>
  /\ dispatchTab = 0
  /\ surface = 1
  /\ roundBase = 0

FetchPcs == {"fetchRound", "fetchForced", "fetchFinal"}

\* the call site of the fetchWithRetry in progress
Site == CASE pc = "fetchRound" -> "round"
          [] pc = "fetchForced" -> "forced"
          [] pc = "fetchFinal" -> "final"
          [] OTHER -> "none"

LastKind(cs) == IF cs = << >> THEN "none" ELSE cs[Len(cs)].kind

\* the request fetch sends now, with the outcome o it will have and, when the
\* answer is a 200, the text t of its first candidate
Request(o, t) ==
  [site |-> Site, mdl |-> mdl, nth |-> attempt + 1, outcome |-> o,
   tools |-> RequestHasTools(Site), last |-> LastKind(contents), text |-> t]

ApiError(o) == [kind |-> "error", via |-> "api", status |-> o, model |-> mdl, text |-> ""]
AllFailedError == [kind |-> "error", via |-> "allFailed", status |-> 0, model |-> 0, text |-> ""]
DeclinedError == [kind |-> "error", via |-> "declined", status |-> 0, model |-> 0, text |-> ""]
ExhaustedError == [kind |-> "error", via |-> "exhausted", status |-> 0, model |-> 0, text |-> ""]
ToolFault == [kind |-> "fault", via |-> "tool", status |-> 0, model |-> 0, text |-> ""]
TextResult(via, t) == [kind |-> "text", via |-> via, status |-> 0, model |-> mdl, text |-> t]

\* return from generateWithToolsLoop after a model call
Finish(q, res) ==
  /\ pc' = "done"
  /\ result' = res
  /\ lastReq' = q
  /\ UNCHANGED <<cfgVars, round, contents, currentTabId, detectVars, fetchVars,
                 apprVars, execVars, histVars>>

\* continue: the for loop over fallbackList takes the next backend
TryNextModel(q) ==
  /\ mdl' = mdl + 1
  /\ attempt' = 0
  /\ lastErr' = FALSE
  /\ lastReq' = q
  /\ UNCHANGED <<cfgVars, pc, round, contents, currentTabId, detectVars,
                 apprVars, execVars, result, histVars>>

\* a regular round's backend loop after a failure that falls through
RoundNext(q) ==
  IF mdl < Len(fallbackList) THEN TryNextModel(q) ELSE Finish(q, AllFailedError)

\* faulty variant of NoToolsNext: a forced call that failed on every backend
\* ends the session like the final call does
NoToolsNextEnds(q) ==
  IF mdl < Len(fallbackList) THEN TryNextModel(q) ELSE Finish(q, ExhaustedError)

\* a forced or final no-tools backend loop after any failure
NoToolsNext(q) ==
  IF mdl < Len(fallbackList) THEN TryNextModel(q)
  ELSE IF pc = "fetchForced"
    THEN \* no final answer: the round goes on to the approval gate
         /\ pc' = "approval"
         /\ mdl' = 0
         /\ attempt' = 0
         /\ lastErr' = FALSE
         /\ lastReq' = NoReq
         /\ UNCHANGED <<cfgVars, round, contents, currentTabId, detectVars,
                        apprVars, execVars, result, histVars>>
    ELSE Finish(q, ExhaustedError)

\* response interpretation and loop detection on a 200 answer r of a round
Interpret(q, r) ==
  LET calls == getFunctionCallsFromCandidate(r.parts)
      rc == NextRepeatCount(calls, lastCallSignature, repeatCount)
  IN  /\ candidate' = [parts |-> r.parts, calls |-> calls, text |-> r.text]
      /\ repeatCount' = rc
      /\ lastCallSignature' = NextLastSignature(calls, lastCallSignature)
      /\ runLen' = IF callSignature(calls) = prevSig THEN runLen + 1 ELSE 1
      /\ prevSig' = callSignature(calls)
      /\ UNCHANGED <<cfgVars, round, currentTabId, apprVars, execVars,
                     toolRounds, toolsRun, approvalOutcome, orderVars, roundBase>>
      /\ IF rc >= RepeatThreshold(calls)
           THEN /\ forced' = TRUE
                /\ contents' = contents \o <<Entry("calls", TextLen(r.text)),
                                             Entry("stop", StopInstructionChars)>>
                /\ pc' = "fetchForced"
                /\ mdl' = 1
                /\ attempt' = 0
                /\ lastErr' = FALSE
                /\ lastReq' = NoReq
                /\ UNCHANGED result
           ELSE /\ UNCHANGED <<forced, contents>>
                /\ IF IsFinalAnswer(calls)
                     THEN /\ pc' = "done"
                          /\ result' = TextResult("answer", r.text)
                          /\ lastReq' = q
                          /\ UNCHANGED fetchVars
                     ELSE /\ pc' = "approval"
                          /\ mdl' = 0
                          /\ attempt' = 0
                          /\ lastErr' = FALSE
                          /\ lastReq' = NoReq
                          /\ UNCHANGED result

\* fetchWithRetry returned a response with status o (carrying r when 200)
OnReturn(q, o, r) ==
  IF pc = "fetchRound"
    THEN IF o # 200
           THEN IF IsFallThroughStatus(o) THEN RoundNext(q) ELSE Finish(q, ApiError(o))
           ELSE Interpret(q, r)
    ELSE IF o # 200 THEN NoToolsNext(q) ELSE Finish(q, TextResult(Site, r.text))

\* fetchWithRetry threw
OnThrow(q) == IF pc = "fetchRound" THEN RoundNext(q) ELSE NoToolsNext(q)

\* what a response with status o carries
Payloads(o) == IF o = 200 THEN Responses ELSE {NoCandidate}

\* for (round = 0; round < maxRounds; ...): a round starts, compressIfNeeded runs
LoopEnter ==
  /\ pc = "loop"
  /\ LoopCond(round, maxRounds)
  /\ \E sums \in SummaryRuns :
       contents' = compressIfNeeded(contents, LoopCharBudget, sums)
  /\ roundBase' = Len(contents')
  /\ pc' = "fetchRound"
  /\ mdl' = 1
  /\ attempt' = 0
  /\ lastErr' = FALSE
  /\ lastReq' = NoReq
  /\ toolsRun' = 0
  /\ approvalOutcome' = "none"
  /\ forced' = FALSE
  /\ UNCHANGED <<cfgVars, round, currentTabId, detectVars, apprVars, execVars,
                 result, toolRounds, runLen, prevSig, orderVars>>

\* the round budget is used up: the final no-tools call starts
LoopExhausted ==
  /\ pc = "loop"
  /\ ~LoopCond(round, maxRounds)
  /\ pc' = "fetchFinal"
  /\ mdl' = 1
  /\ attempt' = 0
  /\ lastErr' = FALSE
  /\ lastReq' = NoReq
  /\ UNCHANGED <<cfgVars, round, contents, currentTabId, detectVars, apprVars,
                 execVars, result, histVars>>

\* fetchWithRetry: one pass of while (attempt <= retries)
FetchAttempt ==
  /\ pc \in FetchPcs
  /\ RetryCond(attempt, Retries(Site))
  /\ \E o \in Outcomes :
       IF ~IsNetErr(o) /\ (o = 200 \/ ~IsTransientStatus(o))
         THEN \E r \in Payloads(o) : OnReturn(Request(o, r.text), o, r)
         ELSE /\ attempt' = attempt + 1
              /\ lastErr' = (lastErr \/ IsNetErr(o))
              /\ lastReq' = Request(o, "")
              /\ UNCHANGED <<cfgVars, pc, round, contents, currentTabId,
                             detectVars, mdl, apprVars, execVars, result,
                             histVars>>

\* fetchWithRetry after the while loop: throw lastErr, or one last fetch
FetchTail ==
  /\ pc \in FetchPcs
  /\ ~RetryCond(attempt, Retries(Site))
  /\ IF lastErr
       THEN OnThrow(lastReq)
       ELSE \E o \in Outcomes :
              IF IsNetErr(o) THEN OnThrow(Request(o, ""))
              ELSE \E r \in Payloads(o) : OnReturn(Request(o, r.text), o, r)

\* the approval gate answered
Settle(ok, how) ==
  /\ approvalOutcome' = how
  /\ IF ok
       THEN pc' = "exec" /\ callIdx' = 1 /\ UNCHANGED result
       ELSE pc' = "done" /\ result' = DeclinedError /\ UNCHANGED callIdx
  /\ UNCHANGED <<cfgVars, round, contents, currentTabId, detectVars, fetchVars,
                 nameToResultArray, lastReq, toolRounds, toolsRun, forced,
                 runLen, prevSig, orderVars, roundBase>>

\* requestToolApproval up to its await
RequestApproval ==
  /\ pc = "approval"
  /\ IF autoApprove
       THEN Settle(TRUE, "auto") /\ UNCHANGED apprVars
       ELSE /\ pendingId' = round + 1
            /\ listening' = TRUE
            /\ pc' = "waitApproval"
            /\ UNCHANGED <<cfgVars, round, contents, currentTabId, detectVars,
                           fetchVars, execVars, result, lastReq, histVars>>

\* a runtime message reaches the handler of waitForMessageOnce
ApprovalMessage ==
  /\ pc = "waitApproval"
  /\ listening
  /\ \E msg \in ApprovalMessages(pendingId) :
       IF ApprovalPredicate(msg, pendingId)
         THEN /\ listening' = FALSE
              /\ pendingId' = 0
              /\ Settle(Approved(msg), Answer(msg))
         ELSE UNCHANGED vars

\* the timer of waitForMessageOnce fires
ApprovalTimeout ==
  /\ pc = "waitApproval"
  /\ listening
  /\ listening' = FALSE
  /\ pendingId' = 0
  /\ Settle(TimeoutApproved, "timeout")

\* one pass of for (const call of calls) up to its await: executeTool is called
\* with the call and the current tab
ToolStart ==
  /\ pc = "exec"
  /\ pc' = "tool"
  /\ inFlight' = inFlight \cup {callIdx}
  /\ dispatched' = Append(dispatched, callIdx)
  /\ dispatchTab' = currentTabId
  /\ toolsRun' = toolsRun + 1
  /\ toolRounds' = IF toolsRun = 0 THEN toolRounds + 1 ELSE toolRounds
  /\ UNCHANGED <<cfgVars, round, contents, currentTabId, detectVars, fetchVars,
                 apprVars, execVars, result, lastReq, approvalOutcome, forced,
                 runLen, prevSig, surface, roundBase>>

\* the tab a result reports, if it reports one
Reported(res, last) ==
  IF res.kind = "obj" /\ res.newTabId # 0 THEN res.newTabId
  ELSE IF res.kind = "obj" /\ res.switchedTabId # 0 THEN res.switchedTabId
  ELSE last

\* executeTool settles: the rest of the pass, and after the last call the folding
ToolReturn ==
  /\ pc = "tool"
  /\ LET call == candidate.calls[callIdx]
     IN  \E res \in ToolOutcomes(call.name) :
           /\ inFlight' = inFlight \ {callIdx}
           /\ dispatchTab' = 0
           /\ UNCHANGED <<cfgVars, lastCallSignature, repeatCount, fetchVars,
                          apprVars, lastReq, toolRounds, toolsRun, approvalOutcome,
                          forced, runLen, prevSig, roundBase>>
           /\ IF res.kind = "throw"
                THEN /\ pc' = "done"
                     /\ result' = ToolFault
                     /\ UNCHANGED <<round, contents, currentTabId, candidate,
                                    execVars, dispatched, surface>>
                ELSE /\ currentTabId' = NextTabId(res, currentTabId)
                     /\ surface' = Reported(res, surface)
                     /\ UNCHANGED result
                     /\ IF callIdx < Len(candidate.calls)
                          THEN /\ callIdx' = NextCall(callIdx)
                               /\ nameToResultArray' =
                                    Append(nameToResultArray,
                                           [name |-> call.name, result |-> res])
                               /\ pc' = "exec"
                               /\ UNCHANGED <<round, contents, candidate, dispatched>>
                          ELSE /\ contents' = contents
                                    \o <<Entry("calls", TextLen(candidate.text)),
                                         Entry("resp", 0)>>
                               /\ round' = round + 1
                               /\ pc' = "loop"
                               /\ candidate' = NoCandidate
                               /\ callIdx' = 0
                               /\ nameToResultArray' = << >>
                               /\ dispatched' = << >>

Next ==
  \/ LoopEnter
  \/ LoopExhausted
  \/ FetchAttempt
  \/ FetchTail
  \/ RequestApproval
  \/ ApprovalMessage
  \/ ApprovalTimeout
  \/ ToolStart
  \/ ToolReturn

Spec == Init /\ [][Next]_vars

\* every backend request, approval wait and tool dispatch eventually returns,
\* and the event loop runs the continuation of what returned
FairSpec == Spec /\ WF_vars(Next)

\* the steps that need no answer from outside: the session's own code between
\* two awaits, and the one timer a session arms (setTimeout in
\* waitForMessageOnce).  fetch is called without an abort signal and
\* chrome.tabs.sendMessage without a timer, so FetchAttempt, FetchTail and
\* ToolReturn are taken only if the backend, or the page, answers.
TimeoutSpec ==
  Spec /\ WF_vars(LoopEnter \/ LoopExhausted \/ RequestApproval \/ ToolStart
                     \/ ApprovalTimeout)

(***************************************************************************)
(* Properties of the session driver.                                        *)
(***************************************************************************)
\* the final no-tools call after the round budget has been attempted
FinalAttempted == pc = "fetchFinal" \/ result.via \in {"final", "exhausted"}

\* the loop-detection step of the current round has run and the round goes on
AfterDetect == pc \in {"fetchForced", "approval", "waitApproval", "exec", "tool"}

\* C1: with maxRounds = N at most N rounds execute tools, and the final
\* no-tools answer after the budget is attempted only once N rounds have
\* executed their tools.
C1_RoundBudget ==
  /\ toolRounds <= maxRounds
  /\ round <= maxRounds
  /\ FinalAttempted => (round = maxRounds /\ toolRounds = maxRounds)

C1_Witness == pc = "fetchFinal" /\ maxRounds >= 2 /\ toolRounds = maxRounds

\* C2: no tool call of a round is dispatched before the approval gate has
\* answered true for that round (auto-approve, or an approving answer of the
\* user); a decline ends the session with the error result and no tool of
\* the round is executed.
C2_NoToolWithoutApproval ==
  /\ (pc = "exec" \/ toolsRun > 0) => approvalOutcome \in {"auto", "approved"}
  /\ approvalOutcome = "auto" => autoApprove
  /\ approvalOutcome = "declined" =>
       (~autoApprove /\ pc = "done" /\ result = DeclinedError /\ toolsRun = 0)

C2_Witness ==
  ~autoApprove /\ approvalOutcome = "declined" /\ pc = "done" /\ round >= 1

\* C3: when the wait for the approval response times out, requestToolApproval
\* answers false: the session ends with the declined error, the listener is
\* removed and no tool of the batch is executed.
C3_TimeoutFailsClosed ==
  approvalOutcome = "timeout" =>
    (pc = "done" /\ result = DeclinedError /\ ~listening /\ toolsRun = 0)

C3_Witness == ~autoApprove /\ approvalOutcome = "timeout" /\ pc = "done"

\* C4 (as claimed): when a backend that is not the last of the fallback list
\* still answers 500, 503 or 504 on the last request of fetchWithRetry, the
\* regular round goes on with the next backend of the list.
C4_TransientFallsThrough ==
  (/\ lastReq.site = "round"
   /\ lastReq.outcome \in {500, 503, 504}
   /\ lastReq.nth = RoundRetries + 2
   /\ lastReq.mdl < Len(fallbackList))
    => (pc = "fetchRound" /\ mdl = lastReq.mdl + 1 /\ attempt = 0)

\* C5: a non-OK status outside {500, 503, 504} answered to a regular round's
\* model call is the last request of the session: it is not retried, no other
\* backend is tried, and the session ends at once with the API error (so a
\* call whose first answer is such a status has sent exactly one request).
C5_NonTransientNotRetried ==
  (lastReq.site = "round" /\ lastReq.outcome \in Statuses \ {200, 500, 503, 504})
    => /\ pc = "done"
       /\ result = [kind |-> "error", via |-> "api", status |-> lastReq.outcome,
                    model |-> lastReq.mdl, text |-> ""]
       /\ mdl = lastReq.mdl
       /\ attempt = lastReq.nth - 1

C5_Witness ==
  /\ pc = "done"
  /\ lastReq.site = "round"
  /\ lastReq.outcome = 403
  /\ lastReq.nth = 1
  /\ lastReq.mdl = 1
  /\ round = 1

\* C6 (as claimed): a session ends with an error after a transient failure
\* (500, 503, 504 or a network error) only when that failure came from the
\* last backend of the fallback list.
C6_TransientErrorOnlyWhenExhausted ==
  (pc = "done" /\ result.kind = "error" /\ lastReq.outcome \in {0, 500, 503, 504})
    => lastReq.mdl = Len(fallbackList)

\* C7: after the loop-detection step the repeat counter is the number of
\* immediately preceding consecutive rounds whose signature equals the
\* current one (one more per identical round, zero as soon as the signature
\* differs), lastCallSignature is the current signature, and a counter at or
\* above the threshold has forced the no-tools call.
C7_LoopDetection ==
  /\ AfterDetect =>
       /\ repeatCount = runLen - 1
       /\ lastCallSignature = callSignature(candidate.calls)
       /\ (repeatCount >= RepeatThreshold(candidate.calls) => forced)
  /\ result.via = "answer" => repeatCount = 0

C7_Witness ==
  pc = "fetchForced" /\ round = 3 /\ runLen = 3 /\ repeatCount = 2

\* the tools the claim calls recognised workflow tools
C8_HasWorkflowTool ==
  \E i \in 1 .. Len(candidate.calls) :
    candidate.calls[i].name \in {"searchWeb", "getSearchResults",
                                 "clickSearchResultByDomain", "extractText",
                                 "waitForSelector"}

\* C8: the forced final answer is attempted in a round iff the repeat counter
\* is at least 4 for a batch with a workflow tool and at least 2 otherwise,
\* that is from the 5th (resp. 3rd) consecutive identical batch on.
C8_Thresholds ==
  AfterDetect =>
    /\ forced <=> repeatCount >= (IF C8_HasWorkflowTool THEN 4 ELSE 2)
    /\ forced <=> runLen >= (IF C8_HasWorkflowTool THEN 5 ELSE 3)

C8_Witness ==
  /\ pc = "fetchForced"
  /\ C8_HasWorkflowTool
  /\ Len(candidate.calls) = 2
  /\ runLen = 5

\* C9: on a threshold breach the conversation is extended by the model's
\* tool-call entry and the stop instruction, every request of the forced call
\* carries no tool declarations, and when the call succeeds the session ends
\* with the text of that answer without any tool of the round being executed.
C9_ForcedFinalAnswer ==
  /\ pc = "fetchForced" =>
       /\ forced
       /\ Len(contents) >= 2
       /\ contents[Len(contents)] = Entry("stop", StopInstructionChars)
       /\ contents[Len(contents) - 1].kind = "calls"
  /\ lastReq.site = "forced" => (~lastReq.tools /\ lastReq.last = "stop")
  /\ result.via = "forced" =>
       /\ pc = "done"
       /\ result.kind = "text"
       /\ lastReq.site = "forced"
       /\ lastReq.outcome = 200
       /\ result.text = lastReq.text
       /\ result.model = lastReq.mdl
       /\ toolsRun = 0

C9_Witness ==
  pc = "done" /\ result.via = "forced" /\ result.text = "a" /\ result.model = 2

\* C10 (as claimed): every request of the final call made after the round
\* budget carries no tool declarations and ends with an instruction of the
\* driver to answer from the gathered context.
C10_FinalCallInstructs ==
  (lastReq.site = "final" /\ maxRounds >= 1)
    => (~lastReq.tools /\ lastReq.last = "stop")

\* the part of C10 the code does satisfy: the final call carries no tool
\* declarations, a 200 answer of any backend is returned as the final text,
\* and the exhaustion error is returned only after the last backend failed
C10_FinalOutcomeLemma ==
  /\ lastReq.site = "final" => ~lastReq.tools
  /\ result.via = "final" =>
       /\ result.kind = "text"
       /\ lastReq.site = "final"
       /\ lastReq.outcome = 200
       /\ result.text = lastReq.text
  /\ result.via = "exhausted" =>
       /\ result.kind = "error"
       /\ round = maxRounds
       /\ mdl = Len(fallbackList)
       /\ lastReq.site = "final"
       /\ lastReq.outcome # 200

\* C11: within a round the tool calls are started one after another in the
\* order the model gave them: at most one executeTool is pending at any time,
\* and call i+1 is started only when the calls 1..i have returned and their
\* results have been pushed, in that order, onto nameToResultArray.
C11_SequentialTools ==
  /\ Cardinality(inFlight) <= 1
  /\ pc = "tool" => inFlight = {callIdx}
  /\ pc # "tool" => inFlight = {}
  /\ pc \in {"exec", "tool"} =>
       /\ dispatched = [i \in 1 .. Len(dispatched) |-> i]
       /\ Len(dispatched) = (IF pc = "tool" THEN callIdx ELSE callIdx - 1)
       /\ Len(nameToResultArray) = callIdx - 1
       /\ \A i \in 1 .. Len(nameToResultArray) :
            nameToResultArray[i].name = candidate.calls[i].name

C11_Witness ==
  /\ pc = "tool"
  /\ callIdx = 2
  /\ dispatched = <<1, 2>>
  /\ Len(nameToResultArray) = 1
  /\ nameToResultArray[1].name = "openNewTab"

\* C12: the active tab of the driver is always the tab most recently reported
\* by a tool result (the session's tab while none was reported), a result
\* reporting no tab leaves it alone, and every call is dispatched to it.
C12_ActiveSurface ==
  /\ currentTabId = surface
  /\ pc = "tool" => dispatchTab = surface

C12_Witness ==
  /\ pc = "tool"
  /\ round >= 1
  /\ callIdx = 2
  /\ dispatchTab = 3
  /\ nameToResultArray[1].result.newTabId = 3

\* the functionCall part at index i of the candidate carries its arguments as
\* a string that JSON.parse rejects
C18_Unparseable(i) ==
  candidate.parts[i].args.str /\ ~JSONParse(candidate.parts[i].args.text).ok

\* C18: every functionCall part of the candidate yields a call of the batch,
\* in order and under its name; a part whose string-encoded arguments cannot
\* be parsed yields the call with the empty argument set, a candidate with
\* such a part is never taken for a final answer, and the call is dispatched
\* in its turn like the others.
C18_MalformedArgsDegrade ==
  /\ Len(candidate.calls) = Len(candidate.parts)
  /\ \A i \in 1 .. Len(candidate.parts) :
       /\ candidate.calls[i].name = candidate.parts[i].name
       /\ C18_Unparseable(i) => candidate.calls[i].args = << >>
  /\ result.via = "answer" => candidate.parts = << >>
  /\ pc = "tool" => (callIdx \in 1 .. Len(candidate.parts) /\ callIdx \in inFlight)

C18_Witness ==
  /\ pc = "tool"
  /\ C18_Unparseable(callIdx)
  /\ candidate.calls[callIdx] = [name |-> "extractText", args |-> << >>]
  /\ round >= 1

\* C20 (as claimed): a session that has ended has returned either a final
\* text or an error.
C20_TerminalResult == pc = "done" => result.kind \in {"text", "error"}

\* the part of C20 the code does satisfy: when every request, approval wait
\* and tool dispatch returns, the session ends, and the value it returns, if
\* it returns one, is a text or an error and never both
C20_Terminates == <>(pc = "done")

C20_ReturnedValue ==
  /\ pc = "done" <=> result # NoResult
  /\ result.kind = "text" => result.via \in {"answer", "forced", "final"}
  /\ result.kind = "error" =>
       result.via \in {"api", "allFailed", "declined", "exhausted"}

\* the session is at an await: a backend request, the approval wait or a tool
\* dispatch is pending
Suspended == pc \in FetchPcs \cup {"waitApproval", "tool"}

\* C21 (as claimed): every suspension point is bounded by a timeout, so a
\* session that is waiting always goes on and ends, whether or not the
\* backend, the page or the user ever answers (checked under TimeoutSpec,
\* where only the session's own steps and its timers are sure to happen).
C21_CannotBlockForever == [](Suspended => <>(pc = "done"))

\* the one wait with a timer, the approval wait, always ends
C21_ApprovalWaitBounded == (pc = "waitApproval") ~> (pc # "waitApproval")

\* C25: a session ends with a round's answer only when the response of that
\* round held no tool call: the answer is the text of that response, the
\* round asked for no approval, ran no tool and made no model call after the
\* one that answered; and a round goes on to approval and tools only with a
\* response that holds a call, so that a response with calls ends a session
\* with a text only through the forced or the final no-tools call.
C25_NoCallsIsFinalAnswer ==
  /\ result.via = "answer" =>
       /\ pc = "done"
       /\ candidate.calls = << >>
       /\ result.kind = "text"
       /\ result.text = candidate.text
       /\ approvalOutcome = "none"
       /\ toolsRun = 0
       /\ ~forced
       /\ lastReq.site = "round" /\ lastReq.outcome = 200
       /\ lastReq.text = result.text
  /\ AfterDetect => candidate.calls # << >>
  /\ (result.kind = "text" /\ candidate.calls # << >>) =>
       result.via \in {"forced", "final"}
  /\ (pc = "done" /\ lastReq.site = "round" /\ lastReq.outcome = 200
        /\ candidate.calls = << >>) => result.via = "answer"

\* a session that ran tools in an earlier round ended with the text of a
\* response without calls
C25_Witness ==
  /\ result.via = "answer"
  /\ result.text = "a"
  /\ toolRounds > 0

\* C26 (as claimed): when a round that executed tools is over, the
\* conversation is two entries longer than when the round sent its request:
\* the model's tool-call entry, then one tool-response entry.
C26_RoundAddsTwoEntries ==
  (pc = "loop" /\ toolsRun > 0) =>
    /\ Len(contents) = roundBase + 2
    /\ contents[Len(contents) - 1].kind = "calls"
    /\ contents[Len(contents)].kind = "resp"

\* the rounds that did not go through a forced final call add the two entries
C26_UnforcedRoundAddsTwo ==
  (pc = "loop" /\ toolsRun > 0 /\ ~forced) =>
    /\ Len(contents) = roundBase + 2
    /\ contents[Len(contents) - 1].kind = "calls"
    /\ contents[Len(contents)].kind = "resp"


\* C32: a forced no-tools call that failed on every backend does not end the
\* session: the round goes on to the approval gate and the tools with the
\* model's tool-call entry and the stop instruction left in the conversation,
\* a round that then executes its tools appends the model's entry a second
\* time before the tool responses, and the next round, if its batch is the
\* same again, attempts the forced call again.  A round that attempted the
\* forced call ends the session, before the round budget is used up, only
\* with the forced answer, a decline or a tool fault.
C32_FailedForcedCallGoesOn ==
  /\ (forced /\ pc \in {"approval", "waitApproval", "exec", "tool"}) =>
       /\ result = NoResult
       /\ candidate.calls # << >>
       /\ Len(contents) = roundBase + 2
       /\ contents[roundBase + 1].kind = "calls"
       /\ contents[roundBase + 2] = Entry("stop", StopInstructionChars)
  /\ (forced /\ pc = "loop") =>
       /\ toolsRun > 0
       /\ Len(contents) = roundBase + 4
       /\ contents[roundBase + 1].kind = "calls"
       /\ contents[roundBase + 2] = Entry("stop", StopInstructionChars)
       /\ contents[roundBase + 3] = contents[roundBase + 1]
       /\ contents[roundBase + 4].kind = "resp"
  /\ (AfterDetect /\ runLen >= 2 /\ roundBase >= 4
        /\ contents[roundBase - 2].kind = "stop") => forced
  /\ (forced /\ pc = "done" /\ lastReq.site # "final") =>
       \/ result.kind = "text" /\ result.via = "forced"
       \/ result = DeclinedError
       \/ result = ToolFault

\* the forced call is attempted again in the round after a round whose forced
\* call failed and whose tools were executed
C32_Witness ==
  /\ pc = "fetchForced"
  /\ roundBase >= 4
  /\ contents[roundBase - 2].kind = "stop"
  /\ contents[roundBase].kind = "resp"

(***************************************************************************)
(* truncateDeep, on its own.  A value is a string (its characters), an      *)
(* array or an object (its members in order, under their keys), or a        *)
(* number, boolean or null.                                                 *)
(***************************************************************************)
\* the largest maxChars tried
MaxChars == 24
\* strings are up to this much longer than the largest maxChars
MaxExtra == 2
\* arrays and objects hold up to this many members
MaxItems == 3

Str(chars) == [t |-> "str", s |-> chars, kids |-> << >>]
Atom == [t |-> "num", s |-> << >>, kids |-> << >>]
Member(key, v) == [k |-> key, v |-> v]
Arr(items) ==
  [t |-> "arr", s |-> << >>, kids |-> [i \in 1 .. Len(items) |-> Member("", items[i])]]
Obj(members) == [t |-> "obj", s |-> << >>, kids |-> members]

Rep(c, n) == [i \in 1 .. n |-> c]

\* the decimal digits of n, as template literals print them
RECURSIVE Digits(_)
Digits(n) ==
  LET d == <<"0", "1", "2", "3", "4", "5", "6", "7", "8", "9">>[(n % 10) + 1]
  IN  IF n < 10 THEN <<d>> ELSE Digits(n \div 10) \o <<d>>

\* the one character U+2026
Ellipsis == "..."

\* `\u2026 [truncated ${n} chars]`
CharsMarker(n) ==
  <<Ellipsis, " ", "[", "t", "r", "u", "n", "c", "a", "t", "e", "d", " ">>
    \o Digits(n) \o <<" ", "c", "h", "a", "r", "s", "]">>

\* `\u2026 [${n} more items truncated]`
ItemsMarker(n) ==
  <<Ellipsis, " ", "[">> \o Digits(n)
    \o <<" ", "m", "o", "r", "e", " ", "i", "t", "e", "m", "s", " ",
         "t", "r", "u", "n", "c", "a", "t", "e", "d", "]">>

\* `\u2026 [${n} more keys truncated]`
KeysMarker(n) ==
  <<Ellipsis, " ", "[">> \o Digits(n)
    \o <<" ", "m", "o", "r", "e", " ", "k", "e", "y", "s", " ",
         "t", "r", "u", "n", "c", "a", "t", "e", "d", "]">>

\* out[key] = v: the value of an own key is replaced in place, a new key is
\* added last
SetKey(members, key, v) ==
  IF \E i \in 1 .. Len(members) : members[i].k = key
    THEN [i \in 1 .. Len(members) |->
            IF members[i].k = key THEN Member(key, v) ELSE members[i]]
    ELSE Append(members, Member(key, v))

\* function trunc(v) of truncateDeep
RECURSIVE trunc(_, _)
trunc(v, o) ==
  CASE v.t = "str" ->
         IF Len(v.s) > o.maxChars
           THEN Str(SubSeq(v.s, 1, o.maxChars) \o CharsMarker(Len(v.s) - o.maxChars))
           ELSE v
    [] v.t = "arr" ->
         LET out == [i \in 1 .. Min(Len(v.kids), o.maxArray) |->
                       Member("", trunc(v.kids[i].v, o))]
         IN  Arr([i \in 1 .. Len(out) |-> out[i].v]
                   \o (IF Len(v.kids) > o.maxArray
                         THEN <<Str(ItemsMarker(Len(v.kids) - o.maxArray))>>
                         ELSE << >>))
    [] v.t = "obj" ->
         LET out == [i \in 1 .. Min(Len(v.kids), o.maxKeys) |->
                       Member(v.kids[i].k, trunc(v.kids[i].v, o))]
         IN  Obj(IF Len(v.kids) > o.maxKeys
                   THEN SetKey(out, "__truncated__",
                               Str(KeysMarker(Len(v.kids) - o.maxKeys)))
                   ELSE out)
    [] OTHER -> v

truncateDeep(v, o) == trunc(v, o)

\* the limits tried: small ones, and ones every marker fits in
LimitChoices ==
  [maxChars : {2, MaxChars}, maxArray : {1, 2}, maxKeys : {1, 2}]

Leaves ==
  {Str(Rep("a", n)) : n \in {0, 1, 3, MaxChars + 1, MaxChars + MaxExtra}}
    \cup {Atom}
LeafSeqs == UNION {[1 .. n -> Leaves] : n \in 0 .. MaxItems}
Keyed(items) ==
  [i \in 1 .. Len(items) |-> Member(<<"k1", "k2", "k3", "k4", "k5">>[i], items[i])]

\* the results handed to truncateDeep: leaves, arrays and objects of leaves,
\* and arrays and objects holding one array or object of leaves
Flat == {Arr(q) : q \in LeafSeqs} \cup {Obj(Keyed(q)) : q \in LeafSeqs}
Results ==
  Leaves \cup Flat
    \cup {Arr(<<c, Atom>>) : c \in {f \in Flat : Len(f.kids) = MaxItems}}
    \cup {Obj(Keyed(<<c>>)) : c \in {f \in Flat : Len(f.kids) = MaxItems}}

TruncInit ==
  /\ SessionIdle /\ CompIdle /\ DispIdle /\ ExtrIdle /\ MoreIdle({})
  /\ value \in Results
  /\ opts \in LimitChoices
  /\ safe = << >>

\* const safe = truncateDeep(result, ...)
TruncateResult ==
  /\ safe = << >>
  /\ safe' = <<truncateDeep(value, opts)>>
  /\ UNCHANGED <<sessionVars, value, opts, compVars, dispVars, extrVars, moreVars>>

\* truncateDeep applied to what it returned
TruncateAgain ==
  /\ Len(safe) = 1
  /\ safe' = Append(safe, truncateDeep(safe[1], opts))
  /\ UNCHANGED <<sessionVars, value, opts, compVars, dispVars, extrVars, moreVars>>

TruncNext == TruncateResult \/ TruncateAgain

SpecTruncate == TruncInit /\ [][TruncNext]_vars

\* no string, array or object of v is over the limits o
RECURSIVE WithinLimits(_, _)
WithinLimits(v, o) ==
  /\ v.t = "str" => Len(v.s) <= o.maxChars
  /\ v.t = "arr" => Len(v.kids) <= o.maxArray
  /\ v.t = "obj" => Len(v.kids) <= o.maxKeys
  /\ \A i \in 1 .. Len(v.kids) : WithinLimits(v.kids[i].v, o)

\* C13 (as claimed): what truncateDeep returns holds no string longer than
\* maxChars, no array of more than maxArray elements and no object of more
\* than maxKeys keys (stated here for the limits every marker fits in).
C13_OutputWithinLimits ==
  (Len(safe) >= 1 /\ opts.maxChars = MaxChars) => WithinLimits(safe[1], opts)

\* C14 (as claimed): truncateDeep applied to its own output returns that
\* output (stated here for the limits every marker fits in).
C14_Idempotent ==
  (Len(safe) = 2 /\ opts.maxChars = MaxChars) => safe[2] = safe[1]

(***************************************************************************)
(* compressIfNeeded, on its own.                                            *)
(***************************************************************************)
\* the longest conversation handed to compressIfNeeded
MaxConv == 9

\* conversations: entries without text (function calls and responses) and
\* entries with a long text
Conversations ==
  UNION {[1 .. n -> {Entry("user", 0), Entry("user", 4000)}] : n \in 0 .. MaxConv}

Budgets == {0, 3000, LoopCharBudget}

CompInit ==
  /\ SessionIdle /\ TruncIdle /\ DispIdle /\ ExtrIdle /\ MoreIdle({})
  /\ conv \in Conversations
  /\ budget \in Budgets
  /\ compressed = << >>

\* contents = await compressIfNeeded(contents, maxChars)
Compress ==
  /\ compressed = << >>
  /\ \E sums \in SummaryRuns :
       compressed' = <<compressIfNeeded(conv, budget, sums)>>
  /\ UNCHANGED <<sessionVars, conv, budget, truncVars, dispVars, extrVars, moreVars>>

SpecCompress == CompInit /\ [][Compress]_vars

\* C15: what compressIfNeeded returns is estimated at no more than the
\* budget, and a conversation estimated within the budget is returned as it
\* is.
C15_CompressedWithinBudget ==
  Len(compressed) = 1 =>
    /\ estimateContentChars(compressed[1]) <= budget
    /\ estimateContentChars(conv) <= budget => compressed[1] = conv

\* a summary-plus-tail candidate was returned after a longer one did not fit
C15_Witness ==
  /\ Len(compressed) = 1
  /\ Len(conv) >= 9
  /\ estimateContentChars(conv) > budget
  /\ Len(compressed[1]) = 5
  /\ compressed[1][1].kind = "summary"
  /\ estimateContentChars(compressed[1]) > 8000

\* compressIfNeeded returned a summary entry followed by older entries
SummaryReturned ==
  /\ Len(compressed) = 1
  /\ compressed[1] # << >>
  /\ compressed[1][1].kind = "summary"

\* C30 (as claimed): a compressed conversation is one summary entry followed
\* by the 8, the 6 or the 4 most recent entries, and the summary entry holds
\* the label and at most 1200 characters of summary.
C30_SummaryPlusRecentTurns ==
  SummaryReturned =>
    LET tail == Tail(compressed[1])
    IN  /\ Len(tail) \in {MaxTail, MaxTail - 2, MaxTail - 4}
        /\ tail = SubSeq(conv, Len(conv) - Len(tail) + 1, Len(conv))
        /\ compressed[1][1].len >= SummaryLabelChars
        /\ compressed[1][1].len <= SummaryLabelChars + SummaryMaxChars

\* what holds of every compressed conversation: the entries after the summary
\* are the most recent ones, 3 to 8 of them, and the summary is bounded
C30_SummaryPlusSuffix ==
  SummaryReturned =>
    LET tail == Tail(compressed[1])
    IN  /\ Len(tail) \in 3 .. MaxTail
        /\ Len(tail) \in {Min(Len(conv), MaxTail) - 2 * k : k \in 0 .. 2}
        /\ tail = SubSeq(conv, Len(conv) - Len(tail) + 1, Len(conv))
        /\ compressed[1][1].len >= SummaryLabelChars
        /\ compressed[1][1].len <= SummaryLabelChars + SummaryMaxChars

(***************************************************************************)
(* The tool dispatcher, on its own: executeTool and handleBackgroundTool of *)
(* the background script, and executeTool of the content script behind      *)
(* them.  An outcome says how the dispatch came back (an object, null or a  *)
(* thrown fault), which outcome indicator the object carries (ok: true,     *)
(* ok/success: false, an error field alone, or none) and whether a page or  *)
(* browser action was performed.                                            *)
(***************************************************************************)
Out(k, f, a) == [kind |-> k, flag |-> f, acted |-> a]

BACKGROUND_TOOLS ==
  {"openNewTab", "closeCurrentTab", "switchToTabByTitle", "searchWeb",
   "listOpenTabs", "gdocsCreateDocument", "gsheetsCreateSpreadsheet"}

PageTools ==
  {"scrollTo", "clickSelector", "fillSelector", "extractText",
   "autoExtractAfterNavigation", "getAllContent", "navigate", "waitForSelector",
   "clickLinkByText", "pressKey", "focusSelector", "selectOption", "insertText",
   "getLinksOnPage", "getSearchResults", "clickSearchResultByDomain",
   "gdocsInsertText", "gdocsBoldSelection", "gsheetsSetCell"}

\* the names getToolDeclarations declares
Catalog == PageTools \cup BACKGROUND_TOOLS

\* parameters.required of each declaration
Required(name) ==
  CASE name = "scrollTo" -> {"y"}
    [] name \in {"clickSelector", "waitForSelector", "focusSelector",
                 "selectOption"} -> {"selector"}
    [] name = "fillSelector" -> {"selector", "value"}
    [] name = "autoExtractAfterNavigation" -> {"userQuery"}
    [] name \in {"navigate", "openNewTab"} -> {"url"}
    [] name \in {"clickLinkByText", "insertText", "gdocsInsertText"} -> {"text"}
    [] name = "pressKey" -> {"key"}
    [] name = "clickSearchResultByDomain" -> {"domain"}
    [] name \in {"switchToTabByTitle", "searchWeb"} -> {"query"}
    [] name = "gsheetsSetCell" -> {"value"}
    [] OTHER -> {}

\* the arguments a call may carry: the required ones, and for insertText the
\* selector its handler reads
Properties(name) ==
  Required(name) \cup (IF name = "insertText" THEN {"selector"} ELSE {})

\* { ok: !!el }: the element is looked up under args.selector and acted on
OnElement(args, b) ==
  IF "selector" \in args /\ b.found THEN Out("obj", "ok", TRUE)
  ELSE Out("obj", "failed", FALSE)

\* executeTool of the content script
PageTool(name, args, b) ==
  CASE name \in {"scrollTo", "pressKey", "gdocsBoldSelection"} ->
         Out("obj", "ok", TRUE)
    [] name \in {"clickSelector", "fillSelector", "focusSelector",
                 "selectOption", "insertText"} -> OnElement(args, b)
    [] name = "extractText" -> Out("obj", "none", b.found)
    [] name = "autoExtractAfterNavigation" ->
         IF "userQuery" \in args /\ ~b.found
           THEN Out("obj", "failed", TRUE) ELSE Out("obj", "ok", TRUE)
    [] name \in {"getAllContent", "getLinksOnPage"} -> Out("obj", "none", FALSE)
    [] name = "getSearchResults" -> Out("obj", "none", ~b.found)
    [] name = "navigate" -> Out("obj", "ok", "url" \in args)
    [] name = "waitForSelector" ->
         IF "selector" \in args /\ b.found
           THEN Out("obj", "ok", FALSE) ELSE Out("obj", "failed", FALSE)
    [] name \in {"clickLinkByText", "gdocsInsertText", "gsheetsSetCell"} ->
         IF b.found THEN Out("obj", "ok", TRUE) ELSE Out("obj", "failed", FALSE)
    [] name = "clickSearchResultByDomain" ->
         IF "domain" \in args /\ b.found
           THEN Out("obj", "ok", TRUE) ELSE Out("obj", "failed", FALSE)
    [] OTHER -> Out("obj", "error", FALSE)

\* await chrome.tabs.create / chrome.tabs.update, awaited outside any try
TabsCall(b) == IF b.tabsOk THEN Out("obj", "ok", TRUE) ELSE Out("throw", "none", FALSE)

handleBackgroundTool(name, args, b) ==
  CASE name = "openNewTab" ->
         IF "url" \notin args THEN Out("obj", "error", FALSE) ELSE TabsCall(b)
    [] name = "closeCurrentTab" ->
         IF b.tabsOk THEN Out("obj", "ok", TRUE) ELSE Out("obj", "error", FALSE)
    [] name = "switchToTabByTitle" ->
         \* (args?.query || '') is in every title
         IF "query" \notin args \/ b.found THEN TabsCall(b)
         ELSE Out("obj", "error", FALSE)
    [] name = "searchWeb" ->
         IF "query" \notin args THEN Out("obj", "error", FALSE) ELSE TabsCall(b)
    [] name = "listOpenTabs" -> Out("obj", "none", FALSE)
    [] name \in {"gdocsCreateDocument", "gsheetsCreateSpreadsheet"} -> TabsCall(b)
    [] OTHER -> Out("obj", "error", FALSE)

\* executeTool of the background script
executeTool(name, args, b) ==
  IF b.tabId = 0 THEN Out("obj", "error", FALSE)
  ELSE IF name \in BACKGROUND_TOOLS THEN handleBackgroundTool(name, args, b)
  ELSE IF b.answers THEN PageTool(name, args, b)
  ELSE IF name = "extractText" /\ b.found
    THEN \* the all-frames fallback found a text
         Out("obj", "none", FALSE)
    ELSE \* resolve(res?.result ?? null)
         Out("null", "none", FALSE)

Browsers == [tabId : {0, 1}, answers : BOOLEAN, tabsOk : BOOLEAN, found : BOOLEAN]

DispInit ==
  /\ SessionIdle /\ TruncIdle /\ CompIdle /\ ExtrIdle /\ MoreIdle({})
  /\ \E name \in Catalog \cup {"noSuchTool"} :
       toolCall \in [name : {name}, args : SUBSET Properties(name)]
  /\ browser \in Browsers
  /\ toolResult = << >>

\* const result = await executeTool(call.name, call.args, currentTabId)
Dispatch ==
  /\ toolResult = << >>
  /\ toolResult' = <<executeTool(toolCall.name, toolCall.args, browser)>>
  /\ UNCHANGED <<sessionVars, toolCall, browser, truncVars, compVars, extrVars,
                 moreVars>>

SpecDispatch == DispInit /\ [][Dispatch]_vars

\* C16 (as claimed): every dispatch comes back with a result object; it
\* neither throws nor returns null.
C16_DispatchReturnsResult == Len(toolResult) = 1 => toolResult[1].kind = "obj"

\* C17 (as claimed): a call of a catalog tool that omits a required argument
\* comes back with an error result, throws nothing and performs no page or
\* browser action (stated here for a page that answers and a browser whose
\* tab calls succeed).
C17_MissingRequiredRejected ==
  (/\ Len(toolResult) = 1
   /\ browser.tabId # 0 /\ browser.answers /\ browser.tabsOk
   /\ toolCall.name \in Catalog
   /\ ~(Required(toolCall.name) \subseteq toolCall.args))
    => /\ toolResult[1].kind = "obj"
       /\ toolResult[1].flag \in {"failed", "error"}
       /\ ~toolResult[1].acted

(***************************************************************************)
(* The strategy ladder of extractText (content script), on its own: one     *)
(* pass of its do loop.  Texts are modelled by their lengths; the body text *)
(* is a sequence of lines.                                                  *)
(***************************************************************************)
\* the body text has up to this many lines
MaxLines == 3
\* strategy 3 runs while currentText is shorter than this
ComprehensiveBelow == 300
\* strategies 4 to 7 run while currentText is shorter than this
LastResortBelow == 200
\* strategy 7 drops the lines shorter than this
MinLineChars == 10

\* lengths of the texts a strategy may find (0: nothing found)
FoundLens == {0, 20, 250, 400}

\* lengths of the lines of the body text
LineLens == {9, 150}

Documents ==
  [selector : BOOLEAN, first : FoundLens, fallback : FoundLens,
   dynamic : FoundLens, shadow : FoundLens, app : FoundLens,
   body : UNION {[1 .. n -> LineLens] : n \in 0 .. MaxLines}]

\* lines.join('\n').length
RECURSIVE JoinedLen(_)
JoinedLen(lines) ==
  IF lines = << >> THEN 0
  ELSE IF Len(lines) = 1 THEN lines[1]
  ELSE lines[1] + 1 + JoinedLen(Tail(lines))

\* bodyText.split('\n').map(trim).filter(line => line.length >= 10 && ...)
RECURSIVE FilterLines(_)
FilterLines(lines) ==
  IF lines = << >> THEN << >>
  ELSE (IF Head(lines) < MinLineChars THEN << >> ELSE <<Head(lines)>>)
         \o FilterLines(Tail(lines))

\* if (text.length > currentText.length) currentText = text
Longer(cur, found) == IF found > cur THEN found ELSE cur

ExtrInit ==
  /\ SessionIdle /\ TruncIdle /\ CompIdle /\ DispIdle /\ MoreIdle({})
  /\ doc \in Documents
  /\ strategy = 1
  /\ currentText = 0
  /\ bestLens = <<0>>

\* the ladder moves on with currentText at length n
Step(n) ==
  /\ currentText' = n
  /\ bestLens' = Append(bestLens, n)
  /\ strategy' = strategy + 1
  /\ UNCHANGED <<sessionVars, doc, truncVars, compVars, dispVars, moreVars>>

\* strategy 1 (the selector given) or strategy 2 (semantic containers)
SelectorOrSemantic ==
  /\ strategy = 1
  /\ Step(IF doc.selector THEN doc.first ELSE Longer(currentText, doc.first))

\* strategy 3: comprehensive fallback
Comprehensive ==
  /\ strategy = 2
  /\ Step(IF currentText < ComprehensiveBelow
            THEN Longer(currentText, doc.fallback) ELSE currentText)

\* strategy 4: dynamic content containers
Dynamic ==
  /\ strategy = 3
  /\ Step(IF currentText < LastResortBelow
            THEN Longer(currentText, doc.dynamic) ELSE currentText)

\* strategy 5: shadow DOM and iframes
ShadowDom ==
  /\ strategy = 4
  /\ Step(IF currentText < LastResortBelow
            THEN Longer(currentText, doc.shadow) ELSE currentText)

\* strategy 6: application data
AppData ==
  /\ strategy = 5
  /\ Step(IF currentText < LastResortBelow
            THEN Longer(currentText, doc.app) ELSE currentText)

\* strategy 7: the body text, once it is longer than currentText, is filtered
\* and assigned
BodyText ==
  /\ strategy = 6
  /\ Step(IF currentText < LastResortBelow /\ JoinedLen(doc.body) > currentText
            THEN JoinedLen(FilterLines(doc.body)) ELSE currentText)

ExtrNext ==
  \/ SelectorOrSemantic
  \/ Comprehensive
  \/ Dynamic
  \/ ShadowDom
  \/ AppData
  \/ BodyText

SpecExtract == ExtrInit /\ [][ExtrNext]_vars

\* C19 (as claimed): along the ladder the length of the running best never
\* decreases from one strategy to the next.
C19_BestNeverShrinks ==
  \A i \in 1 .. Len(bestLens) - 1 : bestLens[i] <= bestLens[i + 1]

\* the part of C19 the code does satisfy: strategies 1 to 6 (the first five
\* steps of the ladder) never shorten the running best
C19_FirstSixMonotone ==
  \A i \in 1 .. Len(bestLens) - 1 : i <= 5 => bestLens[i] <= bestLens[i + 1]

(***************************************************************************)
(* decodeGoogleRedirect of the content script, on its own.  A URL is its    *)
(* hostname, its pathname and one query parameter with its value as it is   *)
(* written in the URL, a sequence of characters: "x" stands for any         *)
(* unreserved character, "%", "2" and "5" for themselves, so that the       *)
(* escapes are %25 (for "%"), %22 (for a quote, written "q"), %52 ("R")     *)
(* and %55 ("U").                                                           *)
(***************************************************************************)
\* the longest parameter value tried
MaxValueLen == 5

HexDigits == {"2", "5"}

\* the character an escape %ab stands for
Unescape(a, b) ==
  CASE a = "2" /\ b = "5" -> "%"
    [] a = "2" /\ b = "2" -> "q"
    [] a = "5" /\ b = "2" -> "R"
    [] OTHER -> "U"

\* percent-decoding as URLSearchParams does it: what is not an escape stays
RECURSIVE percentDecode(_)
percentDecode(v) ==
  IF v = << >> THEN << >>
  ELSE IF v[1] = "%" /\ Len(v) >= 3 /\ v[2] \in HexDigits /\ v[3] \in HexDigits
    THEN <<Unescape(v[2], v[3])>> \o percentDecode(SubSeq(v, 4, Len(v)))
    ELSE <<v[1]>> \o percentDecode(Tail(v))

\* decodeURIComponent: a "%" that starts no escape is a URIError
decodeURIComponent(v) ==
  IF \E i \in 1 .. Len(v) :
       v[i] = "%" /\ ~(i + 2 <= Len(v) /\ v[i + 1] \in HexDigits
                        /\ v[i + 2] \in HexDigits)
    THEN [ok |-> FALSE, chars |-> << >>]
    ELSE [ok |-> TRUE, chars |-> percentDecode(v)]

\* what decodeGoogleRedirect returns: href itself, or another string
SameHref == [same |-> TRUE, chars |-> << >>]
Destination(chars) == [same |-> FALSE, chars |-> chars]

decodeGoogleRedirect(u) ==
  LET \* u.searchParams.get(key), null and '' being alike to if (v)
      get(key) == IF u.key = key THEN percentDecode(u.raw) ELSE << >>
  IN  IF u.host = "www.google.com" /\ u.path = "/url"
           /\ \E key \in {"q", "url", "u"} : get(key) # << >>
        THEN Destination(get(CHOOSE key \in {"q", "url", "u"} : get(key) # << >>))
      ELSE IF u.host = "www.bing.com" /\ u.path \in {"/aclk", "/ck/a"}
                /\ get("u") # << >>
        THEN Destination(get("u"))
      ELSE IF u.host = "duckduckgo.com" /\ u.path \in {"/l/"}
                /\ get("uddg") # << >>
        THEN LET d == decodeURIComponent(get("uddg"))
             IN  IF d.ok THEN Destination(d.chars) ELSE SameHref
      ELSE SameHref

RedirInit ==
  /\ FirstIdle /\ MoreIdle({"href"})
  /\ href \in [host : {"www.google.com", "www.bing.com", "duckduckgo.com",
                       "example.com"},
               path : {"/url", "/aclk", "/ck/a", "/l/", "/"},
               key : {"q", "url", "u", "uddg", "id"},
               raw : UNION {[1 .. n -> {"x", "%", "2", "5"}] : n \in 0 .. MaxValueLen}]
  /\ unwrapped = << >>

\* decodeGoogleRedirect(a.href)
Unwrap ==
  /\ href # << >>
  /\ unwrapped = << >>
  /\ unwrapped' = <<decodeGoogleRedirect(href)>>
  /\ UNCHANGED <<sessionVars, truncVars, compVars, dispVars, extrVars, sessions,
                 href, clickVars, escVars, waiter, nav,
                 lastVars>>

SpecRedirect == RedirInit /\ [][Unwrap]_vars

\* the URL is a redirect of a search engine the function knows and holds a
\* destination under the parameter that engine uses
KnownRedirect(u) ==
  /\ u.raw # << >>
  /\ \/ u.host = "www.google.com" /\ u.path = "/url" /\ u.key \in {"q", "url", "u"}
     \/ u.host = "www.bing.com" /\ u.path \in {"/aclk", "/ck/a"} /\ u.key = "u"
     \/ u.host = "duckduckgo.com" /\ u.path = "/l/" /\ u.key = "uddg"

\* the parameter value is a well-formed encoding (every "%" starts an escape)
WellEncoded(u) == decodeURIComponent(u.raw).ok

\* C23 (as claimed): for a known redirect URL with an encoded destination
\* decodeGoogleRedirect returns that destination decoded once, and for every
\* URL that is no such redirect it returns its input.
C23_UnwrapDecodesOnce ==
  Len(unwrapped) = 1 =>
    /\ (KnownRedirect(href) /\ WellEncoded(href)) =>
         unwrapped[1] = Destination(percentDecode(href.raw))
    /\ ~KnownRedirect(href) => unwrapped[1] = SameHref

\* what holds: the claim for the Google and Bing redirects and for the URLs
\* that are no redirect
C23_GoogleBingDecodeOnce ==
  Len(unwrapped) = 1 =>
    /\ (KnownRedirect(href) /\ WellEncoded(href) /\ href.host # "duckduckgo.com") =>
         unwrapped[1] = Destination(percentDecode(href.raw))
    /\ ~KnownRedirect(href) => unwrapped[1] = SameHref

(***************************************************************************)
(* clickSearchResultByDomain of the content script, on its own.  The page   *)
(* is its hostname and its anchors in document order; an anchor is the      *)
(* hostname and the path of its (unwrapped) href, its text, whether it      *)
(* holds an h3, whether it lies inside #search, #b_content, .results, main  *)
(* or article, and whether it is visible.                                   *)
(***************************************************************************)
\* the most anchors a page holds
MaxAnchors == 2

\* bonus of a main search result
MainResultBonus == 100
\* bonus of an anchor inside the main content
MainContentBonus == 50
\* bonus of the first candidate, lowered by IndexStep per place, for the
\* first IndexedPlaces candidates
IndexBonus == 50
IndexStep == 10
IndexedPlaces == 5
\* bonus of a path other than '/', and of a text of more than 20 characters
SmallBonus == 10
\* penalty of a navigation word in the path or in the text
NavPenalty == 20
\* penalty of a text of fewer than ShortText characters
ShortPenalty == 10
ShortText == 10
\* anchors with a text of fewer than MinText characters are skipped
MinText == 3
LongText == 20
\* bonus of a text of more than VeryLongText characters
TinyBonus == 5
VeryLongText == 50

\* (a.textContent || '').trim().length
Chars(text) ==
  CASE text = "Example Site" -> 12 [] text = "Privacy" -> 7 [] OTHER -> 2

\* /home|about|contact|news|blog|login|signup|privacy|terms/i.test(s)
IsNavWord(s) == s \in {"Privacy", "/privacy"}

\* isMatch: h === normDomain || h.endsWith('.' + normDomain) || h.includes(normDomain)
isMatch(h, normDomain) ==
  normDomain = "example.com" /\ h \in {"example.com", "docs.example.com"}

\* position of x in the array (Array.prototype.indexOf)
indexOf(arr, x) ==
  (CHOOSE i \in 1 .. Len(arr) : arr[i] = x /\ \A j \in 1 .. i - 1 : arr[j] # x) - 1

RECURSIVE Flatten(_)
Flatten(ss) == IF ss = << >> THEN << >> ELSE Head(ss) \o Flatten(Tail(ss))

\* let candidates: the anchors (by their place on the page) in the order the
\* selectors of the host give them; on a Google page an anchor holding an h3
\* is matched by both selectors of mainResults, and by otherLinks again
candidates(pg) ==
  LET n == Len(pg.links)
  IN  IF pg.host = "www.google.com"
        THEN Flatten([i \in 1 .. n |->
                        IF pg.links[i].inMain /\ pg.links[i].h3
                          THEN <<i, i>> ELSE << >>])
               \o Flatten([i \in 1 .. n |->
                             IF pg.links[i].inMain THEN <<i>> ELSE << >>])
        ELSE [i \in 1 .. n |-> i]

\* let score of the anchor a, found at searchResultIndex idx
score(pg, a, idx) ==
  (IF pg.host = "www.google.com" /\ a.h3 THEN MainResultBonus ELSE 0)
  + (IF a.inMain THEN MainContentBonus ELSE 0)
  + (IF idx < IndexedPlaces THEN IndexBonus - idx * IndexStep ELSE 0)
  + (IF a.path # "/" THEN SmallBonus ELSE 0)
  + (IF Chars(a.text) > LongText THEN SmallBonus ELSE 0)
  + (IF Chars(a.text) > VeryLongText THEN TinyBonus ELSE 0)
  - (IF IsNavWord(a.path) THEN NavPenalty ELSE 0)
  - (IF IsNavWord(a.text) THEN NavPenalty ELSE 0)
  - (IF Chars(a.text) < ShortText THEN ShortPenalty ELSE 0)

\* the anchor is not skipped and its hostname matches
Scored(pg, i) ==
  /\ pg.links[i].visible
  /\ Chars(pg.links[i].text) >= MinText
  /\ isMatch(pg.links[i].dest, pg.domain)

\* const matchingLinks, after the for loop over candidates
matchingLinks(pg) ==
  LET cs == candidates(pg)
  IN  Flatten([k \in 1 .. Len(cs) |->
                 IF Scored(pg, cs[k])
                   THEN <<[element |-> cs[k],
                           score |-> score(pg, pg.links[cs[k]], indexOf(cs, cs[k]))]>>
                   ELSE << >>])

\* faulty variant of sortByScore: the array is left in the order of candidates
sortKeepsOrder(ml) == ml

\* matchingLinks.sort((a, b) => b.score - a.score): highest first, equal
\* scores in their former order
RECURSIVE sortByScore(_)
sortByScore(ml) ==
  IF ml = << >> THEN << >>
  ELSE LET rest == sortByScore(Tail(ml))
           k == Cardinality({j \in 1 .. Len(rest) : rest[j].score > Head(ml).score})
       IN  SubSeq(rest, 1, k) \o <<Head(ml)>> \o SubSeq(rest, k + 1, Len(rest))

\* const target (0: null, and the early return on a missing domain)
clickSearchResultByDomain(pg) ==
  IF pg.domain = "" THEN 0
  ELSE LET sorted == sortByScore(matchingLinks(pg))
       IN  IF Len(sorted) > 0 THEN sorted[1].element ELSE 0

ClickInit ==
  /\ FirstIdle /\ MoreIdle({"anchors"})
  /\ anchors \in
       [host : {"www.google.com", "site.example"},
        domain : {"example.com", ""},
        links : UNION {[1 .. n ->
                          {[dest |-> d, path |-> pt[1], text |-> pt[2], h3 |-> h,
                            inMain |-> m, visible |-> (v \/ ~(h /\ m))] :
                             d \in {"docs.example.com", "example.com", "other.org"},
                             pt \in {<<"/page", "Example Site">>,
                                      <<"/privacy", "Privacy">>,
                                      <<"/", "Example Site">>, <<"/page", "Go">>},
                             h \in BOOLEAN, m \in BOOLEAN, v \in BOOLEAN}]
                         : n \in 0 .. MaxAnchors}]
  /\ target = << >>

\* case 'clickSearchResultByDomain'
Click ==
  /\ anchors # << >>
  /\ target = << >>
  /\ target' = <<clickSearchResultByDomain(anchors)>>
  /\ UNCHANGED <<sessionVars, truncVars, compVars, dispVars, extrVars, sessions,
                 redirVars, anchors, escVars, waiter, nav,
                 lastVars>>

SpecClick == ClickInit /\ [][Click]_vars

\* the primary result of the scenario and its navigation link
IsPrimary(a) ==
  /\ a.dest = "docs.example.com" /\ a.path = "/page" /\ a.text = "Example Site"
  /\ a.h3 /\ a.inMain /\ a.visible
IsPrivacyLink(a) ==
  /\ a.dest = "example.com" /\ a.path = "/privacy" /\ a.text = "Privacy"
  /\ ~a.h3 /\ a.visible

C24_WitnessTie ==
  /\ Len(target) = 1
  /\ Len(anchors.links) = 2
  /\ Scored(anchors, 1) /\ Scored(anchors, 2)
  /\ LET cs == candidates(anchors)
     IN  /\ \A i \in 1 .. 2 : \E k \in 1 .. Len(cs) : cs[k] = i
         /\ score(anchors, anchors.links[1], indexOf(cs, 1))
              = score(anchors, anchors.links[2], indexOf(cs, 2))
         /\ target[1] = cs[1]

(***************************************************************************)
(* The extractText escalation of the background executeTool, on its own.    *)
(* Texts are their lengths.  The page is the text its extractText returned  *)
(* (0: no text, or no result), whether the call asked for scrolling, and    *)
(* what the all-frames extraction, the retry with scrolling and the         *)
(* all-frames extraction under each of the three alternative selectors      *)
(* would return.                                                            *)
(***************************************************************************)
\* the dispatcher escalates below this length
EscalateBelow == 300
\* the scroll retry is made when the all-frames text is below this length
ScrollRetryBelow == 500
\* the alternative selectors are tried when the all-frames text is below this
SelectorsBelow == 200

Max(a, b) == IF a >= b THEN a ELSE b

Text(n, how) == [len |-> n, via |-> how]

\* if (name === 'extractText') { ... } of executeTool, down to return result
extractTextFallback(pg) ==
  LET best == Max(pg.cur, pg.frames)
  IN  IF pg.cur >= EscalateBelow THEN Text(pg.cur, "page")
      ELSE IF pg.frames > pg.cur THEN Text(pg.frames, "frames")
      ELSE IF ~pg.scroll /\ pg.frames < ScrollRetryBelow /\ pg.scrolled > best
        THEN Text(pg.scrolled, "scroll")
      ELSE IF pg.frames < SelectorsBelow /\ \E i \in 1 .. 3 : pg.alts[i] > best
        THEN LET i == CHOOSE i \in 1 .. 3 :
                        pg.alts[i] > best /\ \A j \in 1 .. i - 1 : pg.alts[j] <= best
             IN  Text(pg.alts[i], "selector")
      ELSE Text(pg.cur, "page")

EscInit ==
  /\ FirstIdle /\ MoreIdle({"page"})
  /\ page \in [scroll : BOOLEAN, cur : {0, 150, 250, 400},
               frames : {0, 150, 250, 400}, scrolled : {0, 150, 250, 400},
               alts : [1 .. 3 -> {0, 150, 250, 400}]]
  /\ returned = << >>

\* await executeTool('extractText', args, tabId)
Escalate ==
  /\ page # << >>
  /\ returned = << >>
  /\ returned' = <<extractTextFallback(page)>>
  /\ UNCHANGED <<sessionVars, truncVars, compVars, dispVars, extrVars, sessions,
                 redirVars, clickVars, page, waiter, nav,
                 lastVars>>

SpecEscalate == EscInit /\ [][Escalate]_vars

\* the candidates of the escalation in the order claimed: cross-frame, with
\* scrolling (unless the call itself asked for scrolling), the three selectors
Candidates(pg) ==
  <<pg.frames>> \o (IF pg.scroll THEN << >> ELSE <<pg.scrolled>>) \o pg.alts

\* C27 (as claimed): when the page's text is under 300 characters the
\* dispatcher returns the first of the candidates (cross-frame, scrolling,
\* three selectors) that is strictly longer than the best text seen so far,
\* and the page's text when there is none or when it is 300 characters or
\* more.
C27_FirstLongerCandidate ==
  Len(returned) = 1 =>
    LET cs == Candidates(page)
        longer == {i \in 1 .. Len(cs) : cs[i] > page.cur}
    IN  IF page.cur >= EscalateBelow \/ longer = {}
          THEN returned[1] = Text(page.cur, "page")
          ELSE returned[1].len = cs[CHOOSE i \in longer : \A j \in longer : i <= j]

\* what holds: the dispatcher escalates only under 300 characters, what it
\* returns in place of the page's text is strictly longer than it, and a
\* cross-frame text that is longer is returned before anything else is tried
C27_NeverShorter ==
  Len(returned) = 1 =>
    /\ returned[1].len >= page.cur
    /\ returned[1].via # "page" => page.cur < EscalateBelow /\ returned[1].len > page.cur
    /\ (page.cur < EscalateBelow /\ page.frames > page.cur) =>
         returned[1] = Text(page.frames, "frames")
    /\ returned[1].via = "scroll" => ~page.scroll /\ page.frames <= page.cur
    /\ returned[1].via = "selector" =>
         /\ page.frames <= page.cur
         /\ page.scroll \/ page.scrolled <= page.cur

(***************************************************************************)
(* waitForSelector of the content script, on its own: the tool case and     *)
(* the function behind it, with its promise, its timer and its mutation     *)
(* observer.  The document changes through childList mutations (nodes       *)
(* added or removed) and attribute mutations; after either the selector     *)
(* may match or not.  The mutations of a wait are kept, by their kind.      *)
(***************************************************************************)
\* the most mutations of the document during one wait
MaxMutations == 3

\* timeout used when args.timeoutMs is not a number
DefaultTimeoutMs == 8000

\* typeof timeoutMs === 'number' ? timeoutMs : 8000 (a number is given as
\* itself, anything else as -1)
EffectiveTimeout(timeoutMs) ==
  IF timeoutMs >= 0 THEN timeoutMs ELSE DefaultTimeoutMs

\* the mutations the observer is told of: { childList: true, subtree: true }
Observed == {"childList"}

WaitInit ==
  /\ FirstIdle /\ MoreIdle({"waiter"})
  /\ waiter \in [timeoutMs : {-1, 0, 3000}, matches : BOOLEAN, at : {"call"},
                 deadline : {0}, promise : {"none"}, timer : {"none"},
                 observer : {"none"}, settled : {0}, out : {"none"},
                 matched : {FALSE}, mutations : {<< >>}]

\* case 'waitForSelector' up to its await: querySelector, and when nothing
\* matches the promise with its timer and its observer
WaitCall ==
  /\ waiter # << >>
  /\ waiter.at = "call"
  /\ waiter' =
       IF waiter.matches
         THEN [waiter EXCEPT !.at = "returned", !.out = "ok", !.matched = TRUE,
                             !.deadline = EffectiveTimeout(waiter.timeoutMs)]
         ELSE [waiter EXCEPT !.at = "waiting", !.promise = "pending",
                             !.timer = "armed", !.observer = "observing",
                             !.deadline = EffectiveTimeout(waiter.timeoutMs)]
  /\ UNCHANGED <<sessionVars, truncVars, compVars, dispVars, extrVars, sessions,
                 redirVars, clickVars, escVars, nav,
                 lastVars>>

\* the document is mutated while the tool waits; the observer's callback
\* runs if it is told of the mutation
Mutate ==
  /\ waiter # << >>
  /\ waiter.at = "waiting"
  /\ Len(waiter.mutations) < MaxMutations
  /\ \E kind \in {"childList", "attributes"}, now \in BOOLEAN :
       LET seen == [waiter EXCEPT !.matches = now,
                                  !.matched = waiter.matched \/ now,
                                  !.mutations = Append(waiter.mutations, kind)]
       IN  waiter' =
             IF waiter.observer = "observing" /\ kind \in Observed /\ now
               THEN [seen EXCEPT !.timer = "cleared", !.observer = "disconnected",
                                 !.promise = "resolved",
                                 !.settled = waiter.settled + 1,
                                 !.at = "returned", !.out = "ok"]
               ELSE seen
  /\ UNCHANGED <<sessionVars, truncVars, compVars, dispVars, extrVars, sessions,
                 redirVars, clickVars, escVars, nav,
                 lastVars>>

\* the callback of setTimeout runs, timeoutMs after the call
TimerFires ==
  /\ waiter # << >>
  /\ waiter.timer = "armed"
  /\ waiter' = [waiter EXCEPT !.timer = "fired", !.observer = "disconnected",
                              !.promise = "rejected",
                              !.settled = waiter.settled + 1,
                              !.at = "returned", !.out = "timeout"]
  /\ UNCHANGED <<sessionVars, truncVars, compVars, dispVars, extrVars, sessions,
                 redirVars, clickVars, escVars, nav,
                 lastVars>>

WaitNext == WaitCall \/ Mutate \/ TimerFires

SpecWait == WaitInit /\ [][WaitNext]_vars

\* C28 (as claimed): the tool returns ok = true if the selector matched when
\* it was called or came to match after a mutation of the document before
\* the timeout, and ok = false with the timeout error otherwise.
C28_OkIffMatched ==
  (waiter # << >> /\ waiter.out # "none") =>
    (waiter.out = "ok" <=> waiter.matched)

\* what holds: the tool returns and never throws, the promise is settled at
\* most once, when the tool has returned the observer is disconnected and the
\* timer is cleared or has fired (neither was created when the selector
\* matched at once), ok = true is returned only with the selector matching,
\* and the timer is set to args.timeoutMs or to the default
C28_SettlesOnceAndCleansUp ==
  waiter # << >> =>
    /\ waiter.settled <= 1
    /\ waiter.out \in {"none", "ok", "timeout"}
    /\ waiter.out # "none" =>
         /\ waiter.observer \in {"none", "disconnected"}
         /\ waiter.timer \in {"none", "cleared", "fired"}
         /\ waiter.promise = "none" <=> waiter.mutations = << >> /\ waiter.out = "ok"
                                          /\ waiter.timer = "none"
    /\ waiter.out = "ok" => waiter.matches /\ waiter.timer # "fired"
    /\ waiter.out = "timeout" => waiter.timer = "fired" /\ waiter.promise = "rejected"
    /\ waiter.at # "call" =>
         waiter.deadline = (IF waiter.timeoutMs = -1 THEN DefaultTimeoutMs
                            ELSE waiter.timeoutMs)

(***************************************************************************)
(* The post-navigation handling of the background executeTool, on its own,  *)
(* for the tools navigate, clickLinkByText and clickSearchResultByDomain:   *)
(* from the message sent to the page to the return of the result.           *)
(***************************************************************************)
NavTools == {"navigate", "clickLinkByText", "clickSearchResultByDomain"}

\* what the page answers: an object with its ok and the kind of its href
\* (none: absent or null), or nothing (resolve(res?.result ?? null))
Answer3(k, ok, h) == [kind |-> k, ok |-> ok, href |-> h]
NavAnswers(name) ==
  IF name = "navigate"
    THEN {Answer3("obj", TRUE, "none"), Answer3("null", FALSE, "none")}
    ELSE {Answer3("obj", TRUE, h) : h \in {"http", "hash", "javascript"}}
           \cup {Answer3("obj", FALSE, "none"), Answer3("null", FALSE, "none")}

\* faulty variant of Navigating: only navigate is followed by the waits
NavigatingNavigateOnly(name, res) == name = "navigate" /\ res.ok

\* the conditions under which executeTool waits for the navigation
Navigating(name, res) ==
  \/ name = "navigate" /\ res.ok
  \/ /\ name \in {"clickLinkByText", "clickSearchResultByDomain"}
     /\ res.href \notin {"none", "hash", "javascript"}

NavInit ==
  /\ FirstIdle /\ MoreIdle({"nav"})
  /\ nav \in [name : NavTools, url : BOOLEAN, at : {"send"}, beforeUrl : {FALSE},
              result : {Answer3("none", FALSE, "none")}, waited : {"none"},
              injections : {0}, returned : {<< >>}]

\* ensureContentScript, chrome.tabs.get and the message to the page, up to
\* the answer; then the return, or the start of waitForUrlChange
PageAnswers ==
  /\ nav # << >>
  /\ nav.at = "send"
  /\ \E res \in NavAnswers(nav.name), before \in BOOLEAN :
       nav' = [nav EXCEPT !.result = res,
                          !.beforeUrl = before,
                          !.injections = 1,
                          !.at = IF Navigating(nav.name, res) THEN "waitUrl"
                                 ELSE "done",
                          !.returned = IF Navigating(nav.name, res) THEN << >>
                                       ELSE <<res>>]
  /\ UNCHANGED <<sessionVars, truncVars, compVars, dispVars, extrVars, sessions,
                 redirVars, clickVars, escVars, waiter,
                 lastVars>>

\* what follows the waits: the delay for dynamic content (navigate and
\* clickSearchResultByDomain), or ensureContentScript at once
AfterWaits(how) ==
  [nav EXCEPT !.waited = how,
              !.at = IF nav.name = "clickLinkByText" THEN "inject" ELSE "settle"]

\* waitForUrlChange resolves: true on a tabs.onUpdated event with a fitting
\* url, false when its timer fires
UrlWaitEnds ==
  /\ nav # << >>
  /\ nav.at = "waitUrl"
  /\ \E changed \in BOOLEAN :
       nav' = IF changed THEN AfterWaits("url") ELSE [nav EXCEPT !.at = "waitLoad"]
  /\ UNCHANGED <<sessionVars, truncVars, compVars, dispVars, extrVars, sessions,
                 redirVars, clickVars, escVars, waiter,
                 lastVars>>

\* waitForTabComplete resolves: true when the tab is or becomes complete,
\* false when its timer fires
LoadWaitEnds ==
  /\ nav # << >>
  /\ nav.at = "waitLoad"
  /\ \E complete \in BOOLEAN :
       nav' = AfterWaits(IF complete THEN "load" ELSE "timeout")
  /\ UNCHANGED <<sessionVars, truncVars, compVars, dispVars, extrVars, sessions,
                 redirVars, clickVars, escVars, waiter,
                 lastVars>>

\* the timer of the delay for dynamic content fires
SettleOver ==
  /\ nav # << >>
  /\ nav.at = "settle"
  /\ nav' = [nav EXCEPT !.at = "inject"]
  /\ UNCHANGED <<sessionVars, truncVars, compVars, dispVars, extrVars, sessions,
                 redirVars, clickVars, escVars, waiter,
                 lastVars>>

\* await ensureContentScript(tabId), which catches what executeScript throws;
\* then return result
Reinject ==
  /\ nav # << >>
  /\ nav.at = "inject"
  /\ nav' = [nav EXCEPT !.injections = nav.injections + 1, !.at = "done",
                        !.returned = <<nav.result>>]
  /\ UNCHANGED <<sessionVars, truncVars, compVars, dispVars, extrVars, sessions,
                 redirVars, clickVars, escVars, waiter,
                 lastVars>>

NavNext == PageAnswers \/ UrlWaitEnds \/ LoadWaitEnds \/ SettleOver \/ Reinject

\* both waits and the delay have a timer, and chrome.scripting.executeScript
\* settles: once the page has answered, every step is sure to happen
SpecNavigate ==
  NavInit /\ [][NavNext]_vars
    /\ WF_vars(UrlWaitEnds \/ LoadWaitEnds \/ SettleOver \/ Reinject)

\* the page's answer tells of a navigation under way
NavigationStarted ==
  /\ nav.result.kind = "obj"
  /\ \/ nav.name = "navigate" /\ nav.result.ok
     \/ nav.name # "navigate" /\ nav.result.href = "http"

MaxAsk == 2
\* round budget of the sessions they start
MaxAskRounds == 3

Handler(at, r) == [at |-> at, round |-> r]

ListenerInit ==
  /\ FirstIdle /\ MoreIdle({"sessions"})
  /\ sessions = [i \in 1 .. MaxAsk |-> Handler("unsent", 0)]

\* the listener is called with an ASK_GEMINI message: its (async () => ...)()
\* runs up to await ensureSitePermission, whatever the other handlers do
AskGemini(i) ==
  /\ sessions # << >>
  /\ sessions[i].at = "unsent"
  /\ \A j \in 1 .. i - 1 : sessions[j].at # "unsent"
  /\ sessions' = [sessions EXCEPT ![i] = Handler("permission", 0)]
  /\ UNCHANGED <<sessionVars, truncVars, compVars, dispVars, extrVars,
                 redirVars, clickVars, escVars, waiter, nav,
                 lastVars>>

\* ensureSitePermission resolved: generateWithToolsLoop is entered and runs
\* up to the model call of its first round
EnterLoop(i) ==
  /\ sessions # << >>
  /\ sessions[i].at = "permission"
  /\ sessions' = [sessions EXCEPT ![i] = Handler("model", 0)]
  /\ UNCHANGED <<sessionVars, truncVars, compVars, dispVars, extrVars,
                 redirVars, clickVars, escVars, waiter, nav,
                 lastVars>>

\* the model call of handler i returned: a final answer (always so once the
\* round budget is used up), or tool calls, the first of which is dispatched
ModelAnswers(i) ==
  /\ sessions # << >>
  /\ sessions[i].at = "model"
  /\ \E calls \in BOOLEAN :
       sessions' = [sessions EXCEPT ![i] =
                      IF calls /\ sessions[i].round < MaxAskRounds
                        THEN Handler("tool", sessions[i].round)
                        ELSE Handler("done", sessions[i].round)]
  /\ UNCHANGED <<sessionVars, truncVars, compVars, dispVars, extrVars,
                 redirVars, clickVars, escVars, waiter, nav,
                 lastVars>>

\* the tools of handler i settled: its next round starts
ToolSettles(i) ==
  /\ sessions # << >>
  /\ sessions[i].at = "tool"
  /\ sessions' = [sessions EXCEPT ![i] = Handler("model", sessions[i].round + 1)]
  /\ UNCHANGED <<sessionVars, truncVars, compVars, dispVars, extrVars,
                 redirVars, clickVars, escVars, waiter, nav,
                 lastVars>>

ListenerNext ==
  \E i \in 1 .. MaxAsk :
    AskGemini(i) \/ EnterLoop(i) \/ ModelAnswers(i) \/ ToolSettles(i)

SpecListener == ListenerInit /\ [][ListenerNext]_vars

\* handler i is inside generateWithToolsLoop
InLoop(i) == sessions[i].at \in {"model", "tool"}

\* C22 (as claimed): at most one session is inside generateWithToolsLoop at
\* any time, so that the rounds and tool executions of a second ASK_GEMINI
\* are not interleaved with those of the first.
C22_OneSessionAtATime ==
  sessions # << >> => Cardinality({i \in 1 .. MaxAsk : InLoop(i)}) <= 1

(***************************************************************************)
(* The tool loop and the tabs of the window: the calls a session executes,  *)
(* one after the other, each handed let currentTabId, with what             *)
(* chrome.tabs does to the tabs of the window.                              *)
(***************************************************************************)
\* tool calls a session executes, over all its rounds
MaxCalls == 3

\* tools of the session: two background tools and a surface-local tool
SurfaceTools == {"closeCurrentTab", "openNewTab", "clickSelector"}

RECURSIVE SeqsUpTo(_, _)
SeqsUpTo(S, n) ==
  IF n = 0 THEN {<< >>}
  ELSE LET shorter == SeqsUpTo(S, n - 1)
       IN  shorter \cup {Append(q, x) : q \in shorter, x \in S}

SurfaceInit ==
  /\ FirstIdle /\ MoreIdle({"tabs"})
  /\ \E cs \in SeqsUpTo(SurfaceTools, MaxCalls) \ {<< >>} :
       tabs = [open |-> {1}, closed |-> {}, cur |-> 1, calls |-> cs, idx |-> 1,
               at |-> "exec", sent |-> << >>]

\* await executeTool(call.name, call.args, currentTabId): the call is started
SurfaceStart ==
  /\ tabs # << >>
  /\ tabs.at = "exec"
  /\ tabs.idx <= Len(tabs.calls)
  /\ tabs' = [tabs EXCEPT !.at = "tool",
                          !.sent = Append(@, [name |-> tabs.calls[tabs.idx],
                                              tabId |-> tabs.cur,
                                              gone |-> tabs.cur \in tabs.closed])]
  /\ UNCHANGED <<oldVars, settings, direct, gate, fetcher, stream, tabWait,
                 scroll, trim>>

\* what the call in progress does to the window, and what it returns
SurfaceOutcomes ==
  LET name == tabs.calls[tabs.idx]
  IN  CASE name = "closeCurrentTab" ->
             \* chrome.tabs.remove(tabId) rejects when there is no such tab
             IF tabs.cur \in tabs.open
               THEN {[open |-> tabs.open \ {tabs.cur},
                      closed |-> tabs.closed \cup {tabs.cur},
                      res |-> ToolRes("obj", 0, 0)]}
               ELSE {[open |-> tabs.open, closed |-> tabs.closed,
                      res |-> ToolRes("obj", 0, 0)]}
        [] name = "openNewTab" ->
             {[open |-> tabs.open \cup {t}, closed |-> tabs.closed,
               res |-> ToolRes("obj", t, 0)] :
                t \in NewTabIds \ (tabs.open \cup tabs.closed)}
               \cup {[open |-> tabs.open, closed |-> tabs.closed,
                      res |-> ToolRes("obj", 0, 0)]}
        [] OTHER ->
             \* the page of the tab answers, if the tab is there
             {[open |-> tabs.open, closed |-> tabs.closed,
               res |-> IF tabs.cur \in tabs.open
                         THEN ToolRes("obj", 0, 0) ELSE ToolRes("null", 0, 0)]}

\* executeTool settles: currentTabId is reassigned if the result reports a tab
SurfaceReturn ==
  /\ tabs # << >>
  /\ tabs.at = "tool"
  /\ \E o \in SurfaceOutcomes :
       tabs' = [tabs EXCEPT !.open = o.open,
                            !.closed = o.closed,
                            !.cur = NextTabId(o.res, tabs.cur),
                            !.idx = NextCall(tabs.idx),
                            !.at = "exec"]
  /\ UNCHANGED <<oldVars, settings, direct, gate, fetcher, stream, tabWait,
                 scroll, trim>>

SurfaceNext == SurfaceStart \/ SurfaceReturn

SpecSurface == SurfaceInit /\ [][SurfaceNext]_vars

\* C31 (as claimed): once closeCurrentTab has succeeded, no later surface-local
\* call of the session is dispatched to the closed tab.
C31_NoDispatchToClosedTab ==
  tabs # << >> =>
    \A i \in 1 .. Len(tabs.sent) :
      tabs.sent[i].name \notin BACKGROUND_TOOLS => ~tabs.sent[i].gone

\* C31 (what holds): a surface reported by a tool is taken over, so a call that
\* follows an openNewTab that opened a tab is dispatched to an open tab.
C31_ReportedSurfaceIsOpen ==
  tabs # << >> =>
    \A i \in 2 .. Len(tabs.sent) :
      (tabs.sent[i - 1].name = "openNewTab"
         /\ tabs.sent[i].tabId # tabs.sent[i - 1].tabId) => ~tabs.sent[i].gone

(***************************************************************************)
(* The settings of the background script: STATE.autoApprove, the persisted  *)
(* autoApproveTools of chrome.storage.sync, the callback of the initial     *)
(* chrome.storage.sync.get and the storage.onChanged notifications, with    *)
(* the approval gate reading the flag.                                      *)
(***************************************************************************)
\* writes of autoApproveTools to the storage
MaxChanges == 2
\* consultations of the approval gate
MaxConsults == 2

\* what the storage can hold under autoApproveTools
Stored == {"unset", "on", "off"}

\* !!res.autoApproveTools, !!changes.autoApproveTools.newValue
Truthy(v) == v = "on"

\* autoApprove: true in the STATE literal
DefaultAutoApprove == TRUE

SettingsInit ==
  /\ FirstIdle /\ MoreIdle({"settings"})
  /\ \E v \in Stored :
       settings = [stored |-> v, autoApprove |-> DefaultAutoApprove,
                   loaded |-> FALSE, notices |-> << >>, changes |-> 0,
                   consulted |-> << >>]

\* the callback of chrome.storage.sync.get runs
SettingsLoaded ==
  /\ settings # << >>
  /\ ~settings.loaded
  /\ settings' = [settings EXCEPT !.loaded = TRUE,
                                  !.autoApprove = Truthy(settings.stored)]
  /\ UNCHANGED <<oldVars, tabs, direct, gate, fetcher, stream, tabWait, scroll,
                 trim>>

\* the options page writes autoApproveTools: the storage changes now, the
\* onChanged listeners are called later
SettingWritten ==
  /\ settings # << >>
  /\ settings.changes < MaxChanges
  /\ \E v \in {"on", "off"} \ {settings.stored} :
       settings' = [settings EXCEPT !.stored = v,
                                    !.notices = Append(@, v),
                                    !.changes = @ + 1]
  /\ UNCHANGED <<oldVars, tabs, direct, gate, fetcher, stream, tabWait, scroll,
                 trim>>

\* chrome.storage.onChanged listener: changes.autoApproveTools
SettingNotified ==
  /\ settings # << >>
  /\ settings.notices # << >>
  /\ settings' = [settings EXCEPT !.notices = Tail(@),
                                  !.autoApprove = Truthy(Head(settings.notices))]
  /\ UNCHANGED <<oldVars, tabs, direct, gate, fetcher, stream, tabWait, scroll,
                 trim>>

\* requestToolApproval: if (STATE.autoApprove) return true
GateConsulted ==
  /\ settings # << >>
  /\ Len(settings.consulted) < MaxConsults
  /\ settings' = [settings EXCEPT !.consulted =
                    Append(@, [auto |-> settings.autoApprove,
                               persisted |-> Truthy(settings.stored),
                               loaded |-> settings.loaded,
                               notices |-> Len(settings.notices)])]
  /\ UNCHANGED <<oldVars, tabs, direct, gate, fetcher, stream, tabWait, scroll,
                 trim>>

SettingsNext == SettingsLoaded \/ SettingWritten \/ SettingNotified \/ GateConsulted

SpecSettings == SettingsInit /\ [][SettingsNext]_vars

\* C33 (as claimed): whenever the approval gate is consulted the in-memory
\* flag equals the persisted setting (off when unset), also before the initial
\* load has completed and between a change and its notification.
C33_GateSeesPersistedFlag ==
  settings # << >> =>
    \A i \in 1 .. Len(settings.consulted) :
      settings.consulted[i].auto = settings.consulted[i].persisted

\* C33 (what holds): once the initial load has completed and with no change
\* notification under way, the gate sees the persisted setting.
C33_GateSeesLoadedFlag ==
  settings # << >> =>
    \A i \in 1 .. Len(settings.consulted) :
      (settings.consulted[i].loaded /\ settings.consulted[i].notices = 0) =>
        settings.consulted[i].auto = settings.consulted[i].persisted

(***************************************************************************)
(* The EXECUTE_TOOL case of the runtime message listener of the background  *)
(* script: the message names a tool and its arguments, the sender's tab is  *)
(* the surface.                                                             *)
(***************************************************************************)
\* tools an EXECUTE_TOOL message may name
DirectTools == {"clickSelector", "fillSelector", "navigate", "openNewTab",
                "closeCurrentTab", "extractText"}

DirectInit ==
  /\ FirstIdle /\ MoreIdle({"direct"})
  /\ \E name \in DirectTools :
       direct \in [tool : {name}, args : SUBSET Properties(name),
                   senderTab : {0, 1}, autoApprove : BOOLEAN,
                   page : [answers : BOOLEAN, tabsOk : BOOLEAN, found : BOOLEAN],
                   at : {"received"}, grants : {0}, dispatched : {FALSE},
                   response : {<< >>}]

\* what the browser does during the dispatch of the message's tool
DirectBrowser ==
  [tabId |-> direct.senderTab, answers |-> direct.page.answers,
   tabsOk |-> direct.page.tabsOk, found |-> direct.page.found]

\* case 'EXECUTE_TOOL': executeTool(msg.tool, msg.args, sender.tab?.id) is
\* called; it goes past its tabId check when the sender is a tab
DirectReceived ==
  /\ direct # << >>
  /\ direct.at = "received"
  /\ direct' = [direct EXCEPT !.at = "running",
                              !.dispatched = direct.senderTab # 0]
  /\ UNCHANGED <<oldVars, tabs, settings, gate, fetcher, stream, tabWait, scroll,
                 trim>>

\* executeTool settles: sendResponse({ ok: true, result })
DirectSettles ==
  /\ direct # << >>
  /\ direct.at = "running"
  /\ direct' = [direct EXCEPT !.at = "answered",
                              !.response =
                                 <<executeTool(direct.tool, direct.args,
                                               DirectBrowser)>>]
  /\ UNCHANGED <<oldVars, tabs, settings, gate, fetcher, stream, tabWait, scroll,
                 trim>>

DirectNext == DirectReceived \/ DirectSettles

SpecDirect == DirectInit /\ [][DirectNext]_vars

\* C34 (as claimed): with auto-approve off, a tool the background worker
\* executes for an EXECUTE_TOOL message was granted by the approval gate.
C34_DirectToolNeedsGrant ==
  (direct # << >> /\ ~direct.autoApprove /\ direct.dispatched) => direct.grants > 0

\* C34 (what holds): a message whose sender is no tab executes nothing.
C34_NoTabNoTool ==
  (direct # << >> /\ direct.senderTab = 0) =>
    /\ ~direct.dispatched
    /\ direct.response # << >> => direct.response[1] = Out("obj", "error", FALSE)

(***************************************************************************)
(* The approval gate with the side panel: requestToolApproval and           *)
(* waitForMessageOnce in the background script, the approval modal          *)
(* (pendingApproval, approveTools, declineTools) in src/sidepanel.js, and   *)
(* the runtime messages between them.                                       *)
(***************************************************************************)
\* approval requests made while the side panel is open
MaxRequests == 2

NoRequest == [id |-> 0, at |-> "none", listening |-> FALSE, by |-> 0, settled |-> 0]

GateInit ==
  /\ FirstIdle /\ MoreIdle({"gate"})
  /\ gate = [reqs |-> [i \in 1 .. MaxRequests |-> NoRequest],
             asks |-> << >>, pendingApproval |-> 0, wire |-> {}, stale |-> 0]
\* stale: a response was delivered while a request with another id was pending

\* requestToolApproval with auto-approve off, up to its await: a fresh id, the
\* REQUEST_TOOL_APPROVAL message sent, the handler registered, the timer armed
GateRequest(i) ==
  /\ gate # << >>
  /\ gate.reqs[i].at = "none"
  /\ \A j \in 1 .. i - 1 : gate.reqs[j].at # "none"
  /\ gate' = [gate EXCEPT !.reqs[i] = [NoRequest EXCEPT !.id = i,
                                                        !.at = "waiting",
                                                        !.listening = TRUE],
                          !.asks = Append(@, i)]
  /\ UNCHANGED <<oldVars, tabs, settings, direct, fetcher, stream, tabWait, scroll,
                 trim>>

\* side panel: the REQUEST_TOOL_APPROVAL handler shows the modal
PanelShows ==
  /\ gate # << >>
  /\ gate.asks # << >>
  /\ gate' = [gate EXCEPT !.pendingApproval = Head(gate.asks), !.asks = Tail(@)]
  /\ UNCHANGED <<oldVars, tabs, settings, direct, fetcher, stream, tabWait, scroll,
                 trim>>

\* side panel: a click on approveTools or declineTools
UserAnswers ==
  /\ gate # << >>
  /\ gate.pendingApproval # 0
  /\ \E a \in {"true", "false"} :
       gate' = [gate EXCEPT !.wire = @ \cup {[type |-> "TOOL_APPROVAL_RESPONSE",
                                              id |-> gate.pendingApproval,
                                              approved |-> a]},
                            !.pendingApproval = 0]
  /\ UNCHANGED <<oldVars, tabs, settings, direct, fetcher, stream, tabWait, scroll,
                 trim>>

\* the handler of waitForMessageOnce of request r on a runtime message
OnMessage(r, msg) ==
  IF r.listening /\ ApprovalPredicate(msg, r.id)
    THEN [r EXCEPT !.listening = FALSE,
                   !.at = IF Approved(msg) THEN "granted" ELSE "declined",
                   !.by = msg.id,
                   !.settled = @ + 1]
    ELSE r

\* a response of the side panel reaches the handlers registered in the
\* background script
ResponseDelivered ==
  /\ gate # << >>
  /\ \E msg \in gate.wire :
       gate' = [gate EXCEPT !.wire = @ \ {msg},
                            !.reqs = [i \in 1 .. MaxRequests |->
                                        OnMessage(gate.reqs[i], msg)],
                            !.stale = IF \E i \in 1 .. MaxRequests :
                                            gate.reqs[i].listening
                                              /\ gate.reqs[i].id # msg.id
                                        THEN 1 ELSE @]
  /\ UNCHANGED <<oldVars, tabs, settings, direct, fetcher, stream, tabWait, scroll,
                 trim>>

\* the timer of waitForMessageOnce fires: the handler is removed, the promise
\* rejects and requestToolApproval returns false
GateTimeout(i) ==
  /\ gate # << >>
  /\ gate.reqs[i].listening
  /\ gate' = [gate EXCEPT !.reqs[i].listening = FALSE,
                          !.reqs[i].at = "timedOut"]
  /\ UNCHANGED <<oldVars, tabs, settings, direct, fetcher, stream, tabWait, scroll,
                 trim>>

GateNext ==
  \/ \E i \in 1 .. MaxRequests : GateRequest(i) \/ GateTimeout(i)
  \/ PanelShows
  \/ UserAnswers
  \/ ResponseDelivered

SpecGate == GateInit /\ [][GateNext]_vars

\* C35: a request is granted or declined only by a response that carries its
\* own id, a response with another id leaves it as it was, no request is
\* settled by more than one response, and a request that timed out is not
\* granted later.
C35_OnlyMatchingResponseSettles ==
  gate # << >> =>
    \A i \in 1 .. MaxRequests :
      LET r == gate.reqs[i]
      IN  /\ r.settled <= 1
          /\ r.at \in {"granted", "declined"} <=> r.settled = 1
          /\ r.settled = 1 => r.by = r.id /\ ~r.listening
          /\ r.at \in {"none", "waiting", "timedOut"} => r.by = 0
          /\ r.listening <=> r.at = "waiting"

\* the late answer to the first request, which timed out, was delivered while
\* the second request was pending, and the second request was then granted by
\* its own response
C35_Witness ==
  /\ gate # << >>
  /\ gate.reqs[1].at = "timedOut"
  /\ gate.stale = 1
  /\ gate.reqs[2].at = "granted"

(***************************************************************************)
(* fetchWithRetry, on its own: one call with its retries option, against a  *)
(* backend that answers each request with a status or not at all.           *)
(***************************************************************************)
\* largest retries option of a call
MaxRetries == 2

\* what the backend does to a request: OK, a status that is not retried, a
\* transient status, or a failure at network level
FetchOutcomes == {200, 403, 500, 503, 0}

Returned(o) == [kind |-> "response", status |-> o]
Thrown == [kind |-> "throw", status |-> 0]
Pending == [kind |-> "none", status |-> 0]

FetcherInit ==
  /\ FirstIdle /\ MoreIdle({"fetcher"})
  /\ \E r \in 0 .. MaxRetries :
       fetcher = [retries |-> r, attempt |-> 0, lastErr |-> FALSE,
                  sent |-> << >>, ret |-> Pending]

\* one pass of while (attempt <= retries): a request, then a return or the
\* delay and attempt++
FetcherAttempt ==
  /\ fetcher # << >>
  /\ fetcher.ret = Pending
  /\ RetryCond(fetcher.attempt, fetcher.retries)
  /\ \E o \in FetchOutcomes :
       fetcher' =
         IF ~IsNetErr(o) /\ (o = 200 \/ ~IsTransientStatus(o))
           THEN [fetcher EXCEPT !.sent = Append(@, o), !.ret = Returned(o)]
           ELSE [fetcher EXCEPT !.sent = Append(@, o),
                                !.attempt = @ + 1,
                                !.lastErr = @ \/ IsNetErr(o)]
  /\ UNCHANGED <<oldVars, tabs, settings, direct, gate, stream, tabWait, scroll,
                 trim>>

\* after the loop: if (lastErr) throw lastErr; return fetch(url, options)
FetcherTail ==
  /\ fetcher # << >>
  /\ fetcher.ret = Pending
  /\ ~RetryCond(fetcher.attempt, fetcher.retries)
  /\ IF fetcher.lastErr
       THEN fetcher' = [fetcher EXCEPT !.ret = Thrown]
       ELSE \E o \in FetchOutcomes :
              fetcher' = [fetcher EXCEPT !.sent = Append(@, o),
                                         !.ret = IF IsNetErr(o) THEN Thrown
                                                 ELSE Returned(o)]
  /\ UNCHANGED <<oldVars, tabs, settings, direct, gate, stream, tabWait, scroll,
                 trim>>

FetcherNext == FetcherAttempt \/ FetcherTail

SpecFetch == FetcherInit /\ [][FetcherNext]_vars

\* the requests of the call so far were all answered with a transient status
AllTransient(sent) == \A i \in 1 .. Len(sent) : sent[i] \in {500, 503, 504}
\* the requests of the call so far all failed at network level
AllNetwork(sent) == \A i \in 1 .. Len(sent) : sent[i] = 0

\* C36: a finished call with retries = r
\*  - whose requests were all answered with a transient status has sent
\*    r + 2 requests and returned the last response;
\*  - whose requests all failed at network level has sent r + 1 requests and
\*    thrown;
\*  - has returned the first OK or non-transient response it received, having
\*    sent no request after it;
\*  - with a network failure among its first r + 1 requests and transient
\*    statuses for the others has thrown without a further request.
C36_RequestsAndOutcome ==
  fetcher # << >> =>
    LET r == fetcher.retries
        sent == fetcher.sent
        n == Len(sent)
        done == fetcher.ret # Pending
    IN  /\ n <= r + 2
        /\ (done /\ AllTransient(sent)) =>
             n = r + 2 /\ fetcher.ret = Returned(sent[n])
        /\ (done /\ AllNetwork(sent)) => n = r + 1 /\ fetcher.ret = Thrown
        /\ \A i \in 1 .. n :
             (sent[i] = 200 \/ sent[i] \notin {0, 500, 503, 504}) =>
               i = n /\ fetcher.ret = Returned(sent[i])
        /\ (done /\ (\E i \in 1 .. n : i <= r + 1 /\ sent[i] = 0)
                 /\ (\A i \in 1 .. n : sent[i] \in {0, 500, 503, 504})) =>
             n = r + 1 /\ fetcher.ret = Thrown

\* a call with retries = 2 that met one network failure between two transient
\* statuses has thrown after three requests
C36_Witness ==
  /\ fetcher # << >>
  /\ fetcher.retries = 2
  /\ fetcher.sent = <<503, 0, 503>>
  /\ fetcher.ret = Thrown

(***************************************************************************)
(* The ASK_GEMINI case of the runtime message listener with the messages it *)
(* sends to the side panel: the handler of one message, from the lookup of  *)
(* the tab to the end of generateWithToolsLoop.                             *)
(***************************************************************************)
\* progress updates a session sends from inside generateWithToolsLoop
MaxUpdates == 3

Update(about) == [type |-> "STREAM_UPDATE", about |-> about]
Done == [type |-> "STREAM_DONE", about |-> "none"]

\* how generateWithToolsLoop ends: { text }, { error }, or a rejection (a
\* fault raised by a tool of the loop)
LoopEnds == {"text", "error", "fault"}

StreamInit ==
  /\ FirstIdle /\ MoreIdle({"stream"})
  /\ \E t \in {0, 1} :
       stream = [senderTab |-> t, tabId |-> 0, at |-> "received",
                 emitted |-> << >>, answered |-> FALSE]

\* case 'ASK_GEMINI': tabId from the sender, or the query for the active tab
AskReceived ==
  /\ stream # << >>
  /\ stream.at = "received"
  /\ stream' = [stream EXCEPT !.tabId = stream.senderTab,
                              !.at = IF stream.senderTab # 0 THEN "permission"
                                     ELSE "query"]
  /\ UNCHANGED <<oldVars, tabs, settings, direct, gate, fetcher, tabWait, scroll,
                 trim>>

\* chrome.tabs.query answered: without an active tab the handler reports the
\* error and ends
TabQueried ==
  /\ stream # << >>
  /\ stream.at = "query"
  /\ \E active \in {0, 1} :
       stream' = IF active = 0
                   THEN [stream EXCEPT !.at = "done",
                                       !.emitted = @ \o <<Update("error"), Done>>,
                                       !.answered = TRUE]
                   ELSE [stream EXCEPT !.tabId = active, !.at = "permission"]
  /\ UNCHANGED <<oldVars, tabs, settings, direct, gate, fetcher, tabWait, scroll,
                 trim>>

\* ensureSitePermission resolved: generateWithToolsLoop is called
PermissionEnsured ==
  /\ stream # << >>
  /\ stream.at = "permission"
  /\ stream' = [stream EXCEPT !.at = "loop"]
  /\ UNCHANGED <<oldVars, tabs, settings, direct, gate, fetcher, tabWait, scroll,
                 trim>>

\* generateWithToolsLoop sends a progress update (a fallback backend, a forced
\* answer, the round budget used up)
LoopUpdates ==
  /\ stream # << >>
  /\ stream.at = "loop"
  /\ Len(stream.emitted) < MaxUpdates
  /\ \E about \in {"fallback", "forcing", "budget"} :
       stream' = [stream EXCEPT !.emitted = Append(@, Update(about))]
  /\ UNCHANGED <<oldVars, tabs, settings, direct, gate, fetcher, tabWait, scroll,
                 trim>>

\* generateWithToolsLoop settles: its result is reported, or its rejection
\* rejects the handler
LoopSettles ==
  /\ stream # << >>
  /\ stream.at = "loop"
  /\ \E how \in LoopEnds :
       stream' = IF how = "fault"
                   THEN [stream EXCEPT !.at = "rejected"]
                   ELSE [stream EXCEPT !.at = "done",
                                       !.emitted = @ \o <<Update(how), Done>>,
                                       !.answered = TRUE]
  /\ UNCHANGED <<oldVars, tabs, settings, direct, gate, fetcher, tabWait, scroll,
                 trim>>

StreamNext ==
  AskReceived \/ TabQueried \/ PermissionEnsured \/ LoopUpdates \/ LoopSettles

SpecStream == StreamInit /\ [][StreamNext]_vars

\* the STREAM_DONE messages among the messages sent
DoneCount(ms) == Cardinality({i \in 1 .. Len(ms) : ms[i] = Done})

\* C37 (as claimed): a handler that is over, whatever the outcome of the
\* session, has sent exactly one STREAM_DONE, after its last STREAM_UPDATE.
C37_OneStreamDone ==
  (stream # << >> /\ stream.at \in {"done", "rejected"}) =>
    /\ DoneCount(stream.emitted) = 1
    /\ stream.emitted[Len(stream.emitted)] = Done

\* C37 (what holds): a handler that ran to its end has sent exactly one
\* STREAM_DONE, as its last message, and no handler sends two.
C37_OneStreamDoneOnReturn ==
  stream # << >> =>
    /\ DoneCount(stream.emitted) <= 1
    /\ stream.at = "done" =>
         /\ DoneCount(stream.emitted) = 1
         /\ stream.emitted[Len(stream.emitted)] = Done

(***************************************************************************)
(* waitForTabComplete and waitForUrlChange of the background script, on     *)
(* their own: one call with its promise, its done flag, its tabs.onUpdated  *)
(* listener and its timer, and for waitForTabComplete the callback of the   *)
(* immediate chrome.tabs.get.                                               *)
(***************************************************************************)
\* tabs.onUpdated events during one call
MaxEvents == 2

\* the tab the call waits for
WaitedTab == 1

\* tabs.onUpdated events: the tab, info.status, and info.url (none, the
\* previous url, the target url, or another url)
TabEvents ==
  [id : {WaitedTab, 2}, status : {"loading", "complete"},
   url : {"none", "previous", "target", "other"}]

\* the tab event a call waits for: its tab is complete, or the url of its tab
\* has changed (to the target, when the call names one)
AwaitedEvent(w, ev) ==
  /\ ev.id = WaitedTab
  /\ CASE w.fn = "waitForTabComplete" -> ev.status = "complete"
       [] w.target -> ev.url = "target"
       [] OTHER -> ev.url \in {"target", "other"}

\* faulty variant of Awaits: the id of the tab is not compared
AwaitsAnyTab(w, ev) ==
  IF w.fn = "waitForTabComplete" THEN ev.status = "complete"
  ELSE ev.url # "none" /\ (IF w.target THEN ev.url = "target" ELSE ev.url # "previous")

\* the condition under which onUpdated settles the call
Awaits(w, ev) ==
  IF w.fn = "waitForTabComplete"
    THEN ev.id = WaitedTab /\ ev.status = "complete"
    ELSE /\ ev.id = WaitedTab /\ ev.url # "none"
         /\ IF w.target THEN ev.url = "target" ELSE ev.url # "previous"

\* cleanup(): once only, the listener is removed and the timer cleared
cleanup(w) ==
  IF w.done THEN w
  ELSE [w EXCEPT !.done = TRUE, !.listener = FALSE,
                 !.timer = IF @ = "armed" THEN "cleared" ELSE @]

\* resolve(v) on the promise of the call
resolve(w, v) ==
  [w EXCEPT !.promise = IF @ = "pending" THEN v ELSE @, !.resolves = @ + 1]

TabWaitInit ==
  /\ FirstIdle /\ MoreIdle({"tabWait"})
  /\ \E fn \in {"waitForTabComplete", "waitForUrlChange"}, tg \in BOOLEAN :
       /\ fn = "waitForTabComplete" => ~tg
       /\ tabWait = [fn |-> fn, target |-> tg, promise |-> "pending",
                     done |-> FALSE, listener |-> TRUE, timer |-> "armed",
                     check |-> IF fn = "waitForTabComplete" THEN "pending" ELSE "none",
                     resolves |-> 0, events |-> << >>, seen |-> "none", late |-> 0]
\* seen: what happened first, an awaited event or status ("event") or the
\* timeout ("timeout"); late: awaited events that came after the timeout

\* a tabs.onUpdated event: onUpdated runs if it is still registered
TabEvent ==
  /\ tabWait # << >>
  /\ Len(tabWait.events) < MaxEvents
  /\ \E ev \in TabEvents :
       LET w == [tabWait EXCEPT
                   !.events = Append(@, ev),
                   !.seen = IF @ = "none" /\ AwaitedEvent(tabWait, ev)
                              THEN "event" ELSE @,
                   !.late = IF tabWait.timer = "fired" /\ AwaitedEvent(tabWait, ev)
                              THEN @ + 1 ELSE @]
       IN  tabWait' = IF w.listener /\ Awaits(w, ev)
                        THEN resolve(cleanup(w), "true") ELSE w
  /\ UNCHANGED <<oldVars, tabs, settings, direct, gate, fetcher, stream, scroll,
                 trim>>

\* waitForTabComplete: the callback of the immediate chrome.tabs.get
StatusChecked ==
  /\ tabWait # << >>
  /\ tabWait.check = "pending"
  /\ \E st \in {"complete", "loading", "lastError"} :
       LET w == [tabWait EXCEPT
                   !.check = "answered",
                   !.seen = IF @ = "none" /\ st = "complete" THEN "event" ELSE @,
                   !.late = IF tabWait.timer = "fired" /\ st = "complete"
                              THEN @ + 1 ELSE @]
       IN  tabWait' = IF st = "complete" THEN resolve(cleanup(w), "true") ELSE w
  /\ UNCHANGED <<oldVars, tabs, settings, direct, gate, fetcher, stream, scroll,
                 trim>>

\* the timer of the call fires
TabWaitTimeout ==
  /\ tabWait # << >>
  /\ tabWait.timer = "armed"
  /\ LET w == [tabWait EXCEPT !.timer = "fired",
                              !.seen = IF @ = "none" THEN "timeout" ELSE @]
     IN  tabWait' = resolve(cleanup(w), "false")
  /\ UNCHANGED <<oldVars, tabs, settings, direct, gate, fetcher, stream, scroll,
                 trim>>

TabWaitNext == TabEvent \/ StatusChecked \/ TabWaitTimeout

SpecTabWait == TabWaitInit /\ [][TabWaitNext]_vars

\* C38: the call is settled with true exactly if an awaited event of its tab
\* (for waitForTabComplete also the immediate status check) came before the
\* timeout, and with false exactly if the timeout came first; a settled call
\* has its listener removed and its timer no longer armed, having run its
\* cleanup once; and what arrives after the timeout leaves the call settled
\* with false.
C38_SettlesOnce ==
  tabWait # << >> =>
    /\ tabWait.promise = "true" <=> tabWait.seen = "event"
    /\ tabWait.promise = "false" <=> tabWait.seen = "timeout"
    /\ tabWait.promise = "pending" =>
         tabWait.listener /\ tabWait.timer = "armed" /\ ~tabWait.done
    /\ tabWait.promise # "pending" =>
         ~tabWait.listener /\ tabWait.timer # "armed" /\ tabWait.done
    /\ tabWait.timer = "fired" => tabWait.promise = "false"
    /\ tabWait.timer = "cleared" => tabWait.promise = "true"

\* a waitForTabComplete call timed out, and the completion of its tab that
\* came after the timeout left it settled with false
C38_Witness ==
  /\ tabWait # << >>
  /\ tabWait.fn = "waitForTabComplete"
  /\ tabWait.promise = "false"
  /\ tabWait.late = 2

(***************************************************************************)
(* The scroll loop of the extractText tool of the content script, on its    *)
(* own: the do ... while around the extraction body, with what the page     *)
(* yields in each pass (the text found, whether the page grew after the     *)
(* scroll, whether the text gathered looks like the content looked for).    *)
(***************************************************************************)
\* const MAX_SCROLLS
MAX_SCROLLS == 15
\* const MAX_STABLE_SCROLLS
MAX_STABLE_SCROLLS == 4
\* scroll passes before the page height is looked at
MinScrolls == 3
\* the length of gathered text above which scrolling stops
EnoughChars == 4000
\* the length above which text that looks like the content looked for stops
\* the scrolling
TargetChars == 800

\* what a pass finds: no text, a text already gathered, or a new text (its length)
PassTexts == {[new |-> FALSE, len |-> 0], [new |-> FALSE, len |-> 500],
              [new |-> TRUE, len |-> 500], [new |-> TRUE, len |-> 2500]}

\* length of allText.join('\n') after one more text
Joined(total, pushed, len) == IF pushed = 0 THEN len ELSE total + 1 + len

\* faulty variant of ScrollGoesOn: the page height is not looked at
ScrollGoesOnWhateverHeight(s) ==
  s.scroll /\ s.scrollCount < MAX_SCROLLS /\ s.stable < MAX_STABLE_SCROLLS

\* the condition of the do ... while
ScrollGoesOn(s) ==
  /\ s.scroll
  /\ s.scrollCount < MAX_SCROLLS
  /\ s.stable < MAX_STABLE_SCROLLS
  /\ (s.grew \/ s.scrollCount < MinScrolls)

ScrollInit ==
  /\ FirstIdle /\ MoreIdle({"scroll"})
  /\ \E sc \in BOOLEAN :
       scroll = [scroll |-> sc, at |-> "body", passes |-> 0, scrollCount |-> 0,
                 stable |-> 0, pushed |-> 0, total |-> 0, grew |-> TRUE,
                 why |-> "none"]

\* one pass of the loop: the extraction body, the bookkeeping of new text, the
\* scroll, the check for the content looked for, and the loop condition
ScrollPass ==
  /\ scroll # << >>
  /\ scroll.at = "body"
  /\ \E t \in PassTexts, grows \in BOOLEAN, looksLikeTarget \in BOOLEAN :
       LET fresh == t.len > 0 /\ t.new
           s1 == [scroll EXCEPT
                    !.passes = @ + 1,
                    !.pushed = IF fresh THEN @ + 1 ELSE @,
                    !.total = IF fresh THEN Joined(@, scroll.pushed, t.len) ELSE @,
                    !.stable = IF fresh THEN 0 ELSE @ + 1]
           scrolls == s1.scroll /\ s1.stable < MAX_STABLE_SCROLLS
           s2 == IF scrolls
                   THEN [s1 EXCEPT !.scrollCount = @ + 1, !.grew = grows]
                   ELSE [s1 EXCEPT !.grew = FALSE]
           breaks == /\ s2.scroll /\ t.len > 0
                     /\ \/ looksLikeTarget /\ s2.total > TargetChars
                        \/ s2.total > EnoughChars
       IN  scroll' =
             IF breaks THEN [s2 EXCEPT !.at = "done", !.why = "break"]
             ELSE IF ScrollGoesOn(s2) THEN s2
             ELSE [s2 EXCEPT !.at = "done", !.why = "while"]
  /\ UNCHANGED <<oldVars, tabs, settings, direct, gate, fetcher, stream, tabWait,
                 trim>>

SpecScroll == ScrollInit /\ [][ScrollPass]_vars

\* C39: without scroll the extraction body runs exactly once; with scroll it
\* runs at most 15 passes, and after a pass the loop goes on only while fewer
\* than 4 passes in a row yielded no new text, the page grew after the scroll
\* or fewer than 3 scroll passes were made, and the text gathered is not
\* above 4000 characters.
C39_ScrollLoopBounded ==
  scroll # << >> =>
    /\ scroll.passes <= 15
    /\ ~scroll.scroll => /\ scroll.passes <= 1
                         /\ scroll.at = "done" <=> scroll.passes = 1
    /\ (scroll.at = "body" /\ scroll.passes > 0) =>
         /\ scroll.scroll
         /\ scroll.passes < 15
         /\ scroll.stable < 4
         /\ scroll.grew \/ scroll.passes < 3
         /\ scroll.total <= 4000
    /\ scroll.at = "done" => scroll.passes >= 1

\* a scrolling extraction ended by the limit of 15 passes
C39_Witness ==
  /\ scroll # << >>
  /\ scroll.scroll
  /\ scroll.at = "done"
  /\ scroll.passes = 15
  /\ scroll.stable < 4 /\ scroll.grew /\ scroll.total <= 4000

(***************************************************************************)
(* trimContents, on its own, over conversations whose entries are kept with *)
(* their parts: text parts, and functionCall / functionResponse parts.      *)
(***************************************************************************)
\* longest conversation handed to trimContents
MaxTrim == 3

\* a part: a text of size characters, or a part without text whose payload
\* takes size characters
TextPart(n) == [isText |-> TRUE, size |-> n]
OtherPart(n) == [isText |-> FALSE, size |-> n]

\* entries of a conversation: a question, an answer, a tool-call entry with
\* and without a text, a tool-response entry
TrimEntries ==
  { [kind |-> "user", parts |-> <<TextPart(120)>>],
    [kind |-> "model", parts |-> <<TextPart(900)>>],
    [kind |-> "calls", parts |-> <<OtherPart(60)>>],
    [kind |-> "calls", parts |-> <<TextPart(40), OtherPart(60)>>],
    [kind |-> "resp", parts |-> <<OtherPart(300)>>] }

\* faulty variant of TextChars: every part is counted
RECURSIVE TextCharsAllParts(_)
TextCharsAllParts(parts) ==
  IF parts = << >> THEN 0 ELSE Head(parts).size + TextCharsAllParts(Tail(parts))

\* for (const p of parts) if (typeof p.text === 'string') sum += p.text.length
RECURSIVE TextChars(_)
TextChars(parts) ==
  IF parts = << >> THEN 0
  ELSE (IF Head(parts).isText THEN Head(parts).size ELSE 0) + TextChars(Tail(parts))

\* the entries as estimateContentChars measures them
Measured(cs) == [i \in 1 .. Len(cs) |-> Entry(cs[i].kind, TextChars(cs[i].parts))]

TrimInit ==
  /\ FirstIdle /\ MoreIdle({"trim"})
  /\ \E cs \in SeqsUpTo(TrimEntries, MaxTrim), b \in {0, 100, 1000} :
       trim = [contents |-> cs, maxChars |-> b, out |-> << >>]

\* trimContents(contents, maxChars): the entries returned are the last ones
\* of contents
Trim ==
  /\ trim # << >>
  /\ trim.out = << >>
  /\ LET kept == Len(trimContents(Measured(trim.contents), trim.maxChars))
         n == Len(trim.contents)
     IN  trim' = [trim EXCEPT !.out = <<SubSeq(trim.contents, n - kept + 1, n)>>]
  /\ UNCHANGED <<oldVars, tabs, settings, direct, gate, fetcher, stream, tabWait,
                 scroll>>

SpecTrim == TrimInit /\ [][Trim]_vars

\* the characters of the text parts of the entries: what the claim calls the
\* estimated size
RECURSIVE TextUpTo(_, _)
TextUpTo(ps, n) ==
  IF n = 0 THEN 0
  ELSE TextUpTo(ps, n - 1) + (IF ps[n].isText THEN ps[n].size ELSE 0)

RECURSIVE EstimatedSize(_)
EstimatedSize(cs) ==
  IF cs = << >> THEN 0
  ELSE TextUpTo(Head(cs).parts, Len(Head(cs).parts)) + EstimatedSize(Tail(cs))

Suffix(cs, k) == SubSeq(cs, Len(cs) - k + 1, Len(cs))

\* C40: trimContents returns contents unchanged when its estimated size is
\* within maxChars, and otherwise the longest suffix of contents whose
\* estimated size is within maxChars: the empty list when the newest entry
\* alone is over the budget; an entry without text parts counts for nothing.
C40_LongestSuffixWithinBudget ==
  (trim # << >> /\ trim.out # << >>) =>
    LET cs == trim.contents
        kept == trim.out[1]
        max == trim.maxChars
    IN  /\ EstimatedSize(cs) <= max => kept = cs
        /\ EstimatedSize(cs) > max =>
             /\ kept = Suffix(cs, Len(kept))
             /\ EstimatedSize(kept) <= max
             /\ \A k \in Len(kept) + 1 .. Len(cs) : EstimatedSize(Suffix(cs, k)) > max
             /\ EstimatedSize(Suffix(cs, 1)) > max => kept = << >>
        /\ \A i \in 1 .. Len(cs) :
             (\A j \in 1 .. Len(cs[i].parts) : ~cs[i].parts[j].isText) =>
               estimateContentChars(Measured(<<cs[i]>>)) = 0

\* a conversation over the budget was cut to a shorter suffix that holds an
\* entry without text parts
C40_Witness ==
  /\ trim # << >> /\ trim.out # << >>
  /\ EstimatedSize(trim.contents) > trim.maxChars
  /\ Len(trim.out[1]) = 2
  /\ Len(trim.contents) = 3
  /\ trim.out[1][1].kind = "resp"

\* the newest entry alone is over the budget: nothing is kept
C40_WitnessEmpty ==
  /\ trim # << >> /\ trim.out = << << >> >>
  /\ Len(trim.contents) = 3

====
